---- MODULE Spec2Model ----
(***************************************************************************)
(* Model of product_adder: SKU normalisation, the local catalog store's     *)
(* reconciliation queries, the cooldown-gated sync orchestrator and the     *)
(* storefront client's retry wrappers.                                      *)
(*                                                                          *)
(* Strings are sequences of one-character strings over Alphabet.  Python's  *)
(* None is the one-element sequence None, which no string equals.           *)
(***************************************************************************)
EXTENDS Integers, Sequences, FiniteSets, TLC

VARIABLES
    normIn,            \* argument handed to the SKU normalizer
    normOut,           \* <<function name, value returned>> of the last normalizer call
    jds_products,      \* table jds_products: rows in rowid order
    shopify_products,  \* table shopify_products: rows in rowid order
    returned,          \* results of the reads made since the last write to the store
    now,               \* wall clock, in minutes
    last_sync,         \* DataSyncManager.last_sync (NoSync = None)
    sync_ret,          \* what the last sync entry point returned
    client_calls,      \* client syncs attempted by the last sync entry point, in order
    retry_pc,          \* position of the retry wrapper's loop
    retry_op,          \* which wrapper is running: "create" or "update_price"
    attempt,           \* the wrapper's loop variable
    op_calls,          \* calls of the wrapped operation made by this invocation
    waits,             \* the time.sleep arguments of this invocation, in order
    attempts_seen,     \* per attempt: upstream event and how the wrapper classified the result
    retry_ret,         \* what the wrapper returned
    bulk_pc,           \* "idle", "created" after create_products_bulk, "rolled_back"
    bulk_input,        \* the products handed to create_products_bulk
    bulk_ret,          \* what create_products_bulk returned
    table_before_bulk, \* shopify_products when create_products_bulk was entered
    rollback_answers,  \* what the storefront answers to each DELETE of the rollback
    rollback_ret,      \* what rollback_created_products returned
    jds_table,         \* jds_products with the columns the write path sets, in rowid order
    shopify_table,     \* shopify_products with the columns the write path sets
    wclock,            \* datetime.utcnow() of the latest write, counted in writes
    last_write,        \* the latest _save_product_to_db call and how it ended
    memo,              \* cache_manager.cache as the cached decorator uses it: key -> entry
    memo_now,          \* time.time() seen by the memoized reads, in minutes
    memo_ret,          \* what the latest memoized read returned
    cache,             \* CacheManager.cache: key -> entry
    cache_stats,       \* CacheManager.stats
    cache_now,         \* time.time() seen by the CacheManager, in seconds
    cache_ops,         \* CacheManager calls made so far that write the cache or the counters
    cache_ret,         \* the latest CacheManager call, what it returned and what it found
    last_set,          \* per key: the latest set not followed by a delete or clear
    cache_calls,       \* get, set and successful delete calls made since the latest clear
    pending_syncs,     \* BackgroundSyncManager.pending_syncs
    completed_syncs,   \* BackgroundSyncManager.completed_syncs
    failed_syncs,      \* BackgroundSyncManager.failed_syncs: sku -> message
    sync_lock,         \* who holds BackgroundSyncManager.sync_lock
    running,           \* BackgroundSyncManager.running
    worker_alive,      \* worker_thread is not None and worker_thread.is_alive()
    stopped_on,        \* the SKUs that were pending at a stop_worker call since their request
    worker_pc,         \* the worker's position in _worker_loop
    worker_sku,        \* the sku the worker popped
    handler_pc,        \* a request handler's position in its call of the manager
    handler_call,      \* the call the handler makes
    bg_ret,            \* what the latest call of the manager returned and what it found
    bg_last_request,   \* the sku of the latest request_sync if no worker step followed it
    drift_ret,         \* the latest answer of a handler that compares the local row with the live check
    price_ret,         \* the latest call of the pricing calculator: function, argument, result
    cs_pc,             \* a client call's position: "idle", "batching" inside sync_products, "done"
    cs_call,           \* the client call: client, operation, credentials, the SKU list's length
    cs_sent,           \* the network requests the call has sent, in order
    cs_next,           \* the loop variable i of JDSClient.sync_products, counted from 1
    cs_acc,            \* synced_count, errors, and what was written and what failed so far
    cs_ret,            \* what the client call returned
    jds_connected,     \* DataSyncManager.jds_connected: "None", "True" or "False"
    shopify_connected, \* DataSyncManager.shopify_connected
    last_connection_test,  \* DataSyncManager.last_connection_test, NoSync for None
    conn_ret,          \* the latest connectivity call: what it probed and returned
    storefront,        \* the products created on the storefront, in order: sku and price
    add_ret            \* the latest add_sku_to_shopify call and its answer

vars == <<normIn, normOut, jds_products, shopify_products, returned,
          now, last_sync, sync_ret, client_calls,
          retry_pc, retry_op, attempt, op_calls, waits, attempts_seen, retry_ret,
          bulk_pc, bulk_input, bulk_ret, table_before_bulk, rollback_answers,
          rollback_ret, jds_table, shopify_table, wclock, last_write,
          memo, memo_now, memo_ret,
          cache, cache_stats, cache_now, cache_ops, cache_ret, last_set, cache_calls,
          pending_syncs, completed_syncs, failed_syncs, sync_lock, running, worker_alive,
          stopped_on, worker_pc,
          worker_sku, handler_pc, handler_call, bg_ret, bg_last_request,
          drift_ret, price_ret,
          cs_pc, cs_call, cs_sent, cs_next, cs_acc, cs_ret,
          jds_connected, shopify_connected, last_connection_test, conn_ret,
          storefront, add_ret>>

normVars  == <<normIn, normOut>>
storeVars == <<jds_products, shopify_products, returned>>
syncVars  == <<now, last_sync, sync_ret, client_calls>>
retryVars == <<retry_pc, retry_op, attempt, op_calls, waits, attempts_seen, retry_ret>>
bulkVars  == <<bulk_pc, bulk_input, bulk_ret, table_before_bulk, rollback_answers,
               rollback_ret>>

\* the variables of the parts added after the retry wrappers
upsertVars == <<jds_table, shopify_table, wclock, last_write>>
memoVars == <<memo, memo_now, memo_ret>>
cacheVars == <<cache, cache_stats, cache_now, cache_ops, cache_ret, last_set,
               cache_calls>>
bgVars == <<pending_syncs, completed_syncs, failed_syncs, sync_lock, running, worker_alive,
          stopped_on, worker_pc,
            worker_sku, handler_pc, handler_call, bg_ret, bg_last_request>>
\* the variables of the parts added after the cache
driftVars == <<drift_ret>>
priceVars == <<price_ret>>
clientVars == <<cs_pc, cs_call, cs_sent, cs_next, cs_acc, cs_ret>>
\* the variables of the parts added after the pricing calculator
connVars == <<jds_connected, shopify_connected, last_connection_test, conn_ret>>
addVars == <<storefront, add_ret>>
lastVars == <<clientVars, connVars, addVars>>
restVars == <<bgVars, driftVars, priceVars, lastVars>>
laterVars == <<bulkVars, upsertVars, memoVars, cacheVars, restVars>>

-----------------------------------------------------------------------------
(* Bounds *)

NormLen == 5        \* longest generated SKU handed to the normalizer
MaxJds == 2         \* most rows in jds_products
MaxShopify == 2     \* most rows in shopify_products
MaxTime == 12       \* the clock stops advancing here (minutes)

-----------------------------------------------------------------------------
(* Strings *)

Alphabet == {"A", "1", "-"}

None == <<"None">>

RECURSIVE StringsOfLen(_)
StringsOfLen(n) ==
    IF n = 0 THEN {<<>>}
    ELSE {Append(s, c) : s \in StringsOfLen(n - 1), c \in Alphabet}

Strings(n) == UNION {StringsOfLen(k) : k \in 0..n}

\* Python truthiness of an optional string: None and "" are falsy
Falsy(s) == s = None \/ s = <<>>

\* '-' in sku
HasHyphen(s) == \E i \in 1..Len(s) : s[i] = "-"

\* sku.split('-'): the pieces between hyphens, left to right
RECURSIVE SplitFrom(_, _, _)
SplitFrom(s, i, cur) ==
    IF i > Len(s) THEN <<cur>>
    ELSE IF s[i] = "-" THEN <<cur>> \o SplitFrom(s, i + 1, <<>>)
    ELSE SplitFrom(s, i + 1, Append(cur, s[i]))

Split(s) == SplitFrom(s, 1, <<>>)

-----------------------------------------------------------------------------
(* SKU normalizer *)

\* a slip that cuts at the first hyphen only
clean_sku_after_first_hyphen(sku) ==
    IF Falsy(sku) THEN sku
    ELSE IF HasHyphen(sku)
         THEN LET first == CHOOSE i \in 1..Len(sku) :
                               sku[i] = "-" /\ \A j \in 1..(i - 1) : sku[j] # "-"
              IN  SubSeq(sku, first + 1, Len(sku))
    ELSE sku

\* a slip that keeps the part before the first hyphen
clean_sku_first_part(sku) ==
    IF Falsy(sku) THEN sku
    ELSE IF HasHyphen(sku) THEN Split(sku)[1]
    ELSE sku

clean_sku_for_comparison(sku) ==
    IF Falsy(sku) THEN sku
    ELSE IF HasHyphen(sku) THEN LET parts == Split(sku) IN parts[Len(parts)]
    ELSE sku

clean_sku_for_external_api(sku) ==
    IF Falsy(sku) THEN sku
    ELSE IF HasHyphen(sku) THEN LET parts == Split(sku) IN parts[Len(parts)]
    ELSE sku

\* the SKUs the documentation uses as examples
ExampleSkus ==
    { <<"A","B","C","-","1","2","3">>, <<"A","-","B","-","1","2","3">>, <<"1","2","3">> }

NormInputs == Strings(NormLen) \cup ExampleSkus \cup {None}

NoCall == <<"none", None>>

NormInit ==
    /\ normIn \in NormInputs
    /\ normOut = NoCall

NormIdle ==
    /\ normIn = None
    /\ normOut = NoCall

CallCleanForComparison ==
    /\ normOut' = <<"clean_sku_for_comparison", clean_sku_for_comparison(normIn)>>
    /\ UNCHANGED <<normIn, storeVars, syncVars, retryVars, laterVars>>

CallCleanForExternalApi ==
    /\ normOut' = <<"clean_sku_for_external_api", clean_sku_for_external_api(normIn)>>
    /\ UNCHANGED <<normIn, storeVars, syncVars, retryVars, laterVars>>

NextNorm ==
    \/ CallCleanForComparison
    \/ CallCleanForExternalApi

-----------------------------------------------------------------------------
(* Local catalog store: the two tables and the reconciliation queries *)

\* SKUs the upstreams hand over: prefixed and bare forms of the keys "1" and
\* "A", and a SKU that ends in a hyphen
SkuPool ==
    { <<"A","-","1">>, <<"1">>, <<"A">>, <<"1","-","A">>, <<"A","-">> }

Row(sku) == [sku |-> sku]

Skus(table) == {table[i].sku : i \in 1..Len(table)}

Range(seq) == {seq[i] : i \in 1..Len(seq)}

ZeroStats ==
    [jds_total |-> 0, shopify_total |-> 0, matched |-> 0, unmatched |-> 0,
     match_percentage |-> 0]

NothingReturned ==
    [fresh |-> {}, unmatched |-> <<>>, matched |-> <<>>, stats |-> ZeroStats]

StoreInit ==
    /\ jds_products = <<>>
    /\ shopify_products = <<>>
    /\ returned = NothingReturned

\* {clean_sku_for_comparison(row[0]) for row in shopify_rows}
shopify_skus_cleaned(shopify) ==
    {clean_sku_for_comparison(shopify[i].sku) : i \in 1..Len(shopify)}

\* a slip that tests the raw supplier SKU against the cleaned storefront SKUs
get_unmatched_products_raw_sku(jds, shopify) ==
    SelectSeq(jds, LAMBDA row : row.sku \notin shopify_skus_cleaned(shopify))

get_unmatched_products(jds, shopify) ==
    SelectSeq(jds, LAMBDA row :
        clean_sku_for_comparison(row.sku) \notin shopify_skus_cleaned(shopify))

\* a slip that tests the raw supplier SKU against the cleaned storefront SKUs
get_matched_products_raw_sku(jds, shopify) ==
    SelectSeq(jds, LAMBDA row : row.sku \in shopify_skus_cleaned(shopify))

get_matched_products(jds, shopify) ==
    SelectSeq(jds, LAMBDA row :
        clean_sku_for_comparison(row.sku) \in shopify_skus_cleaned(shopify))

\* matched_count / jds_count * 100, kept to a hundredth of a percent
Percentage(part, whole) == IF whole > 0 THEN (part * 10000) \div whole ELSE 0

\* a slip that takes the percentage of the storefront rows
get_sku_comparison_stats_of_shopify(jds, shopify) ==
    LET jds_count == Len(jds)
        shopify_count == Len(shopify)
        unmatched_count == Len(get_unmatched_products(jds, shopify))
        matched_count == jds_count - unmatched_count
    IN  [jds_total |-> jds_count, shopify_total |-> shopify_count,
         matched |-> matched_count, unmatched |-> unmatched_count,
         match_percentage |-> Percentage(matched_count, shopify_count)]

get_sku_comparison_stats(jds, shopify) ==
    LET jds_count == Len(jds)
        shopify_count == Len(shopify)
        unmatched_count == Len(get_unmatched_products(jds, shopify))
        matched_count == jds_count - unmatched_count
    IN  [jds_total |-> jds_count, shopify_total |-> shopify_count,
         matched |-> matched_count, unmatched |-> unmatched_count,
         match_percentage |-> Percentage(matched_count, jds_count)]

\* SELECT by sku, then UPDATE the row found or INSERT a new one
Upsert(table, sku) ==
    IF sku \in Skus(table) THEN table ELSE Append(table, Row(sku))

\* JDSClient._save_product_to_db: an empty SKU raises before the table is touched
JDSSaveProductToDb(sku) ==
    /\ sku \in Skus(jds_products) \/ Len(jds_products) < MaxJds
    /\ jds_products' = IF Falsy(sku) THEN jds_products ELSE Upsert(jds_products, sku)
    /\ returned' = NothingReturned
    /\ UNCHANGED <<shopify_products, normVars, syncVars, retryVars, laterVars>>

\* ShopifyClient._save_product_to_db: the SKU is stored as the storefront gave it
ShopifySaveProductToDb(sku) ==
    /\ sku \in Skus(shopify_products) \/ Len(shopify_products) < MaxShopify
    /\ shopify_products' =
          IF Falsy(sku) THEN shopify_products ELSE Upsert(shopify_products, sku)
    /\ returned' = NothingReturned
    /\ UNCHANGED <<jds_products, normVars, syncVars, retryVars, laterVars>>

\* ShopifyClient._save_created_product_to_db: INSERT of the supplier's raw SKU;
\* a second row with the same SKU breaks the UNIQUE index and nothing is stored
SaveCreatedProductToDb(sku) ==
    /\ Len(shopify_products) < MaxShopify
    /\ shopify_products' =
          IF sku \in Skus(shopify_products) THEN shopify_products
          ELSE Append(shopify_products, Row(sku))
    /\ returned' = NothingReturned
    /\ UNCHANGED <<jds_products, normVars, syncVars, retryVars, laterVars>>

\* DELETE FROM shopify_products WHERE sku = ?
DeleteShopifyRow(sku) ==
    /\ sku \in Skus(shopify_products)
    /\ shopify_products' = SelectSeq(shopify_products, LAMBDA row : row.sku # sku)
    /\ returned' = NothingReturned
    /\ UNCHANGED <<jds_products, normVars, syncVars, retryVars, laterVars>>

CallGetUnmatchedProducts ==
    /\ returned' = [returned EXCEPT
          !.fresh = @ \cup {"unmatched"},
          !.unmatched = get_unmatched_products(jds_products, shopify_products)]
    /\ UNCHANGED <<jds_products, shopify_products, normVars, syncVars, retryVars, laterVars>>

CallGetMatchedProducts ==
    /\ returned' = [returned EXCEPT
          !.fresh = @ \cup {"matched"},
          !.matched = get_matched_products(jds_products, shopify_products)]
    /\ UNCHANGED <<jds_products, shopify_products, normVars, syncVars, retryVars, laterVars>>

CallGetSkuComparisonStats ==
    /\ returned' = [returned EXCEPT
          !.fresh = @ \cup {"stats"},
          !.stats = get_sku_comparison_stats(jds_products, shopify_products)]
    /\ UNCHANGED <<jds_products, shopify_products, normVars, syncVars, retryVars, laterVars>>

NextStore ==
    \/ \E sku \in SkuPool \cup {<<>>} : JDSSaveProductToDb(sku)
    \/ \E sku \in SkuPool \cup {<<>>} : ShopifySaveProductToDb(sku)
    \/ \E sku \in SkuPool \cup {<<>>} : SaveCreatedProductToDb(sku)
    \/ \E sku \in SkuPool \cup {<<>>} : DeleteShopifyRow(sku)
    \/ CallGetUnmatchedProducts
    \/ CallGetMatchedProducts
    \/ CallGetSkuComparisonStats

-----------------------------------------------------------------------------
(* Sync orchestrator: DataSyncManager.sync_all_data and the /api/sync/all handler *)

NoSync == 0 - 1

\* timedelta(minutes=5) in _should_skip_sync
SkipWindowMinutes == 5

\* 600 seconds in the /api/sync/all handler
HandlerCooldownMinutes == 10

\* what a client's sync_products can hand back: both catch every exception themselves
ClientOutcomes == {"success", "failure"}

\* the module-level names database.py defines
database_names ==
    { "SimpleDB", "JDSProduct", "ShopifyProduct", "db", "init_db",
      "clean_sku_for_comparison", "get_unmatched_products", "get_matched_products",
      "get_sku_comparison_stats", "get_shopify_price_for_sku",
      "get_matched_products_with_shopify_prices", "get_product_count",
      "get_unmatched_products_optimized", "get_matched_products_optimized",
      "get_sku_comparison_stats_optimized", "get_shopify_skus_cached",
      "get_products_with_pricing_optimized", "optimize_database", "get_database_stats" }

\* a database module in which every import finds its name
import_finds_every_name(name) == TRUE

\* from database import <name>
ImportFromDatabase(name) == name \in database_names

SyncResultKeys ==
    {"success", "timestamp", "jds_sync", "shopify_sync", "comparison_stats", "errors", "message"}

NoSyncReturned ==
    [entry |-> "none", status |-> 0, keys |-> {}, success |-> FALSE, message |-> "",
     jds_success |-> FALSE, shopify_success |-> FALSE, force |-> FALSE, at |-> 0,
     last_sync_before |-> NoSync]

SyncInit ==
    /\ now = 0
    /\ last_sync = NoSync
    /\ sync_ret = NoSyncReturned
    /\ client_calls = <<>>

should_skip_sync(last, t) ==
    IF last = NoSync THEN FALSE ELSE t - last < SkipWindowMinutes

\* sync_jds_data / sync_shopify_data: the client's result, or a failure result
\* when the client raised
sync_client_data(outcome) == outcome = "success"

\* a slip that reports failure as soon as one side failed
sync_message_success_strict(jds_ok, shopify_ok) ==
    IF ~jds_ok /\ ~shopify_ok
        THEN [success |-> FALSE, message |-> "Both JDS and Shopify sync failed"]
    ELSE IF ~jds_ok
        THEN [success |-> FALSE, message |-> "JDS sync failed, but Shopify sync succeeded"]
    ELSE IF ~shopify_ok
        THEN [success |-> FALSE, message |-> "Shopify sync failed, but JDS sync succeeded"]
    ELSE [success |-> TRUE, message |-> "All data synced successfully"]

\* the success flag and message sync_all_data derives from the two results
sync_message(jds_ok, shopify_ok) ==
    IF ~jds_ok /\ ~shopify_ok
        THEN [success |-> FALSE, message |-> "Both JDS and Shopify sync failed"]
    ELSE IF ~jds_ok
        THEN [success |-> TRUE, message |-> "JDS sync failed, but Shopify sync succeeded"]
    ELSE IF ~shopify_ok
        THEN [success |-> TRUE, message |-> "Shopify sync failed, but JDS sync succeeded"]
    ELSE [success |-> TRUE, message |-> "All data synced successfully"]

\* the result of a sync_all_data call that stops at the gate
SkippedResult(force) ==
    [entry |-> "sync_all_data", status |-> 0, keys |-> SyncResultKeys,
     success |-> TRUE, message |-> "Sync skipped - recently synced",
     jds_success |-> FALSE, shopify_success |-> FALSE, force |-> force, at |-> now,
     last_sync_before |-> last_sync]

\* the result of a sync_all_data call that ran both client syncs
RanResult(force, jds_ok, shopify_ok) ==
    [entry |-> "sync_all_data", status |-> 0, keys |-> SyncResultKeys,
     success |-> sync_message(jds_ok, shopify_ok).success,
     message |-> sync_message(jds_ok, shopify_ok).message,
     jds_success |-> jds_ok, shopify_success |-> shopify_ok, force |-> force, at |-> now,
     last_sync_before |-> last_sync]

\* a gate that never stops a call
sync_all_data_never_skips(force) == FALSE

\* whether sync_all_data(force) stops at its gate
sync_all_data_skips(force) == ~force /\ should_skip_sync(last_sync, now)

\* the SKU a client sync of this section may save
SyncSku == <<"1">>

\* a client's sync_products either saves a record or saves none
ClientWrites(table, table_after) == table_after \in {table, Upsert(table, SyncSku)}

\* DataSyncManager.sync_all_data(force), called directly
CallSyncAllData(force) ==
    /\ IF sync_all_data_skips(force)
       THEN /\ sync_ret' = SkippedResult(force)
            /\ client_calls' = <<>>
            /\ UNCHANGED <<last_sync, jds_products, shopify_products>>
       ELSE \E jds_outcome \in ClientOutcomes, shopify_outcome \in ClientOutcomes :
            /\ client_calls' = <<"jds", "shopify">>
            /\ ClientWrites(jds_products, jds_products')
            /\ ClientWrites(shopify_products, shopify_products')
            /\ last_sync' = now
            /\ sync_ret' = RanResult(force, sync_client_data(jds_outcome),
                                     sync_client_data(shopify_outcome))
    /\ UNCHANGED <<now, normVars, returned, retryVars, laterVars>>

\* DataSyncManager.sync_jds_data(), called alone
CallSyncJdsData(outcome) ==
    /\ client_calls' = <<"jds">>
    /\ ClientWrites(jds_products, jds_products')
    /\ sync_ret' = [NoSyncReturned EXCEPT
                      !.entry = "sync_jds_data", !.keys = {"success", "message", "count"},
                      !.success = sync_client_data(outcome),
                      !.jds_success = sync_client_data(outcome),
                      !.at = now, !.last_sync_before = last_sync]
    /\ UNCHANGED <<now, last_sync, shopify_products, normVars, returned, retryVars,
                   laterVars>>

\* DataSyncManager.sync_shopify_data(), called alone
CallSyncShopifyData(outcome) ==
    /\ client_calls' = <<"shopify">>
    /\ ClientWrites(shopify_products, shopify_products')
    /\ sync_ret' = [NoSyncReturned EXCEPT
                      !.entry = "sync_shopify_data", !.keys = {"success", "message", "count"},
                      !.success = sync_client_data(outcome),
                      !.shopify_success = sync_client_data(outcome),
                      !.at = now, !.last_sync_before = last_sync]
    /\ UNCHANGED <<now, last_sync, jds_products, normVars, returned, retryVars,
                   laterVars>>

\* jsonify({'error': str(e)}), 500
ErrorResponse(force) ==
    [entry |-> "sync_all", status |-> 500, keys |-> {"error"}, success |-> FALSE,
     message |-> "", jds_success |-> FALSE, shopify_success |-> FALSE,
     force |-> force, at |-> now, last_sync_before |-> last_sync]

\* The /api/sync/all handler.  Without force it first imports get_last_sync_time
\* from database, which defines no such name: the ImportError is caught by the
\* handler's except clause and answered with 500, so its own 600 second gate is
\* never evaluated.  With force it runs sync_all_data(True) and then fails the
\* same way on importing record_sync_operation.
SyncAllHandler(force) ==
    /\ IF ~force /\ ~ImportFromDatabase("get_last_sync_time")
       THEN /\ sync_ret' = ErrorResponse(force)
            /\ client_calls' = <<>>
            /\ UNCHANGED <<last_sync, jds_products, shopify_products>>
       ELSE /\ force
            /\ \E jds_outcome \in ClientOutcomes, shopify_outcome \in ClientOutcomes :
                 /\ client_calls' = <<"jds", "shopify">>
                 /\ ClientWrites(jds_products, jds_products')
                 /\ ClientWrites(shopify_products, shopify_products')
                 /\ last_sync' = now
                 /\ sync_ret' =
                       IF ImportFromDatabase("record_sync_operation")
                       THEN [RanResult(force, sync_client_data(jds_outcome),
                                       sync_client_data(shopify_outcome))
                                EXCEPT !.entry = "sync_all", !.status = 200]
                       ELSE ErrorResponse(force)
    /\ UNCHANGED <<now, normVars, returned, retryVars, laterVars>>

Tick ==
    /\ now < MaxTime
    /\ now' = now + 1
    /\ UNCHANGED <<last_sync, sync_ret, client_calls, normVars, storeVars, retryVars, laterVars>>

NextSync ==
    \/ \E force \in BOOLEAN : CallSyncAllData(force)
    \/ \E force \in BOOLEAN : SyncAllHandler(force)
    \/ \E outcome \in ClientOutcomes : CallSyncJdsData(outcome)
    \/ \E outcome \in ClientOutcomes : CallSyncShopifyData(outcome)
    \/ Tick

-----------------------------------------------------------------------------
(* Storefront client: create_product, update_product_price and their retry wrappers *)

\* max_retries: int = 3
MaxRetries == 3

\* How one HTTP request to the storefront ends: 2xx, 404, 429, 5xx, 422, or a
\* requests timeout raised by session.get/post/put
HttpOutcomes == {"ok", "not_found", "rate_limited", "server_error", "rejected", "timeout"}

\* What the upstream's error message says, as far as the wrappers look at it:
\* whether it contains 'rate limit' and whether it contains 'validation'
BodyTexts == {"plain", "rate limit", "validation", "both"}

HasRateLimit(text) == text \in {"rate limit", "both"}

HasValidation(text) == text \in {"validation", "both"}

\* one attempt's upstream behaviour: the variant check (update_price only), the
\* request itself, and the text of the error body when there is one
UpstreamEvents(op) ==
    { e \in [check : HttpOutcomes \cup {"n/a"}, call : HttpOutcomes \cup {"n/a"},
             text : BodyTexts] :
        /\ (op = "create") => (e.check = "n/a" /\ e.call # "n/a")
        /\ (op = "update_price") =>
              /\ e.check # "n/a"
              /\ (e.check \in {"ok", "timeout"}) <=> (e.call # "n/a")
        /\ (e.call \in {"ok", "timeout", "n/a"}) => e.text = "plain" }

OpResult(success, text, variant_not_found) ==
    [success |-> success, text |-> text, variant_not_found |-> variant_not_found]

\* create_product: 201 is success; any other status gives "Shopify API error: <upstream
\* message>"; an exception gives "Error creating product: <exception text>"
create_product(e) ==
    IF e.call = "ok" THEN OpResult(TRUE, "plain", FALSE)
    ELSE IF e.call = "timeout" THEN OpResult(FALSE, "plain", FALSE)
    ELSE OpResult(FALSE, e.text, FALSE)

\* update_product_price: the variant is fetched first; 404 or any other non-200
\* answer ends the call, an exception is logged and the update is sent anyway
update_product_price(e) ==
    IF e.check = "not_found" THEN OpResult(FALSE, "plain", TRUE)
    ELSE IF e.check \notin {"ok", "timeout"} THEN OpResult(FALSE, "plain", TRUE)
    ELSE IF e.call = "ok" THEN OpResult(TRUE, "plain", FALSE)
    ELSE IF e.call = "timeout" THEN OpResult(FALSE, "plain", FALSE)
    ELSE IF e.call = "not_found" THEN OpResult(FALSE, e.text, TRUE)
    ELSE OpResult(FALSE, e.text, FALSE)

wrapped_operation(op, e) ==
    IF op = "create" THEN create_product(e) ELSE update_product_price(e)

\* (2 ** attempt) + 1
wait_time(a) == (2 ^ a) + 1

\* a slip that lets the last round retry once more
retry_decision_one_more(result, a) ==
    IF result.success \/ HasValidation(result.text) THEN "return"
    ELSE IF HasRateLimit(result.text) /\ a <= MaxRetries THEN "retry"
    ELSE "return"

\* a slip that retries every failure that is not a validation error
retry_decision_any_failure(result, a) ==
    IF result.success \/ HasValidation(result.text) THEN "return"
    ELSE IF a < MaxRetries THEN "retry"
    ELSE "return"

\* the body of the wrappers' loop after the wrapped call returned
retry_decision(result, a) ==
    IF result.success \/ HasValidation(result.text) THEN "return"
    ELSE IF HasRateLimit(result.text) /\ a < MaxRetries THEN "retry"
    ELSE "return"

NoResult == OpResult(FALSE, "plain", FALSE)

RetryInit ==
    /\ retry_pc = "idle"
    /\ retry_op = "none"
    /\ attempt = 0
    /\ op_calls = 0
    /\ waits = <<>>
    /\ attempts_seen = <<>>
    /\ retry_ret = NoResult

\* create_product_with_retry / update_product_price_with_retry is entered
StartRetry(op) ==
    /\ retry_pc = "idle"
    /\ retry_pc' = "running"
    /\ retry_op' = op
    /\ attempt' = 0
    /\ op_calls' = 0
    /\ waits' = <<>>
    /\ attempts_seen' = <<>>
    /\ retry_ret' = NoResult
    /\ UNCHANGED <<normVars, storeVars, syncVars, laterVars>>

\* the result after the loop: 'Max retries exceeded'
MaxRetriesExceeded == OpResult(FALSE, "plain", FALSE)

\* one round of the loop: the wrapped call, then return or sleep and continue;
\* a continue in the last round of range(max_retries + 1) leaves the loop
RetryAttempt(e) ==
    /\ retry_pc = "running"
    /\ attempt <= MaxRetries
    /\ LET result == wrapped_operation(retry_op, e)
       IN  /\ op_calls' = op_calls + 1
           /\ attempts_seen' = Append(attempts_seen, [event |-> e, result |-> result])
           /\ IF retry_decision(result, attempt) = "retry"
              THEN /\ waits' = Append(waits, wait_time(attempt))
                   /\ attempt' = attempt + 1
                   /\ IF attempt < MaxRetries
                      THEN UNCHANGED <<retry_pc, retry_ret>>
                      ELSE /\ retry_pc' = "done"
                           /\ retry_ret' = MaxRetriesExceeded
              ELSE /\ retry_pc' = "done"
                   /\ retry_ret' = result
                   /\ UNCHANGED <<waits, attempt>>
    /\ UNCHANGED <<retry_op, normVars, storeVars, syncVars, laterVars>>

NextRetry ==
    \/ \E op \in {"create", "update_price"} : StartRetry(op)
    \/ \E e \in UpstreamEvents(retry_op) : RetryAttempt(e)

-----------------------------------------------------------------------------
(* Bulk creation and its rollback: ShopifyClient.create_products_bulk and      *)
(* ShopifyClient.rollback_created_products                                     *)

MaxBulk == 2        \* longest generated list handed to create_products_bulk

\* SKUs of the generated records: the same key with and without a prefix
BulkSkus == { <<"A","-","1">>, <<"1">> }

\* how create_product_with_retry ends for one record: the product is created
\* (201), a validation error is returned at once, or another failure is returned
CreateOutcomes == {"created", "validation", "failed"}

\* the 'id' of the product in the storefront's 201 answer: a JSON number, a
\* JSON string, or absent
IdKinds == {"int", "str", "none"}

BulkRecords ==
    { r \in [sku : BulkSkus, outcome : CreateOutcomes, id : IdKinds] :
        r.outcome # "created" => r.id = "none" }

\* five records, the third failing validation, the others created
ExampleBulk ==
    << [sku |-> <<"A","-","1">>, outcome |-> "created", id |-> "int"],
       [sku |-> <<"1">>, outcome |-> "created", id |-> "int"],
       [sku |-> <<"A">>, outcome |-> "validation", id |-> "none"],
       [sku |-> <<"1","-","A">>, outcome |-> "created", id |-> "int"],
       [sku |-> <<"A","-">>, outcome |-> "created", id |-> "int"] >>

SeqsUpTo(S, n) == UNION { [1..k -> S] : k \in 0..n }

BulkInputs == SeqsUpTo(BulkRecords, MaxBulk) \cup {ExampleBulk}

\* tables the storefront sync can have left behind
BulkTables ==
    { <<>>, <<Row(<<"A","-","1">>)>>, <<Row(<<"1">>)>>,
      <<Row(<<"A","-","1">>), Row(<<"1">>)>> }

\* create_product_with_retry for one record, as create_products_bulk sees it
create_result(record) ==
    [success |-> record.outcome = "created",
     product_id |-> record.id,
     error |-> IF record.outcome = "created" THEN "none" ELSE record.outcome]

\* _save_created_product_to_db: INSERT; a row with that sku already there
\* breaks the UNIQUE index, the exception is logged and the table is unchanged
insert_created(table, sku) ==
    IF sku \in Skus(table) THEN table ELSE Append(table, Row(sku))

BulkStart(table) ==
    [results |-> <<>>, created_count |-> 0, failed_count |-> 0,
     created_products |-> <<>>, attempted |-> <<>>, table |-> table]

\* a loop that gives up at the first record that fails
RECURSIVE BulkLoopStopping(_, _, _)
BulkLoopStopping(products, i, acc) ==
    IF i > Len(products) THEN acc
    ELSE LET result == create_result(products[i])
             entry == [sku |-> products[i].sku, success |-> result.success,
                       product_id |-> result.product_id, error |-> result.error]
         IN  IF result.success
             THEN BulkLoopStopping(products, i + 1,
                    [acc EXCEPT !.results = Append(@, entry),
                                !.attempted = Append(@, products[i].sku),
                                !.created_count = @ + 1,
                                !.created_products =
                                    Append(@, [sku |-> products[i].sku,
                                               product_id |-> result.product_id]),
                                !.table = insert_created(@, products[i].sku)])
             ELSE [acc EXCEPT !.results = Append(@, entry),
                              !.attempted = Append(@, products[i].sku),
                              !.failed_count = @ + 1]

\* for i, product_data in enumerate(products): one result entry per record,
\* a counter bumped, and the created product remembered for a rollback
RECURSIVE BulkLoop(_, _, _)
BulkLoop(products, i, acc) ==
    IF i > Len(products) THEN acc
    ELSE LET result == create_result(products[i])
             entry == [sku |-> products[i].sku, success |-> result.success,
                       product_id |-> result.product_id, error |-> result.error]
         IN  IF result.success
             THEN BulkLoop(products, i + 1,
                    [acc EXCEPT !.results = Append(@, entry),
                                !.attempted = Append(@, products[i].sku),
                                !.created_count = @ + 1,
                                !.created_products =
                                    Append(@, [sku |-> products[i].sku,
                                               product_id |-> result.product_id]),
                                !.table = insert_created(@, products[i].sku)])
             ELSE BulkLoop(products, i + 1,
                    [acc EXCEPT !.results = Append(@, entry),
                                !.attempted = Append(@, products[i].sku),
                                !.failed_count = @ + 1])

BulkKeys == {"success", "message", "created_count", "failed_count", "results"}

BulkReturn(acc, keys) ==
    [keys |-> keys, success |-> acc.failed_count = 0,
     created_count |-> acc.created_count, failed_count |-> acc.failed_count,
     results |-> acc.results, created_products |-> acc.created_products,
     attempted |-> acc.attempted, table |-> acc.table]

create_products_bulk_stopping(products, table) ==
    IF products = <<>> THEN BulkReturn(BulkStart(table), BulkKeys)
    ELSE BulkReturn(BulkLoopStopping(products, 1, BulkStart(table)),
                    BulkKeys \cup {"created_products"})

\* create_products_bulk: an empty list returns at once, without created_products
create_products_bulk(products, table) ==
    IF products = <<>> THEN BulkReturn(BulkStart(table), BulkKeys)
    ELSE BulkReturn(BulkLoop(products, 1, BulkStart(table)),
                    BulkKeys \cup {"created_products"})

\* what the storefront does with one DELETE: 200, another status, or the
\* request raises (a timeout)
DeleteAnswers == {"ok", "refused", "exception"}

delete_row(table, sku) == SelectSeq(table, LAMBDA row : row.sku # sku)

RollbackStart(table) ==
    [deleted_count |-> 0, errors |-> <<>>, requested |-> <<>>, table |-> table]

\* one pass of the loop body for item i: its error, if any
\*   "no_id"      product_id is missing or falsy: the item is skipped
\*   "exception"  product_id.startswith on a number, or the request raised
\*   "refused"    the storefront answered another status than 200
rollback_item(item, answer) ==
    IF item.product_id = "none" THEN "no_id"
    ELSE IF item.product_id = "int" THEN "exception"
    ELSE IF answer = "ok" THEN "deleted"
    ELSE answer

\* whether the DELETE request of item i is sent at all
rollback_sends_request(item) == item.product_id = "str"

\* a loop that removes the local row whatever the storefront answered
RECURSIVE RollbackLoopAlwaysLocal(_, _, _, _)
RollbackLoopAlwaysLocal(items, answers, i, acc) ==
    IF i > Len(items) THEN acc
    ELSE LET outcome == rollback_item(items[i], answers[i])
             sent == IF rollback_sends_request(items[i])
                     THEN Append(acc.requested, i) ELSE acc.requested
         IN  IF outcome = "deleted"
             THEN RollbackLoopAlwaysLocal(items, answers, i + 1,
                    [acc EXCEPT !.deleted_count = @ + 1, !.requested = sent,
                                !.table = delete_row(@, items[i].sku)])
             ELSE RollbackLoopAlwaysLocal(items, answers, i + 1,
                    [acc EXCEPT !.errors = Append(@, [sku |-> items[i].sku, error |-> outcome]),
                                !.requested = sent,
                                !.table = delete_row(@, items[i].sku)])

\* for product in created_products: delete it from the storefront and, on 200,
\* its row from shopify_products; anything else is appended to errors
RECURSIVE RollbackLoop(_, _, _, _)
RollbackLoop(items, answers, i, acc) ==
    IF i > Len(items) THEN acc
    ELSE LET outcome == rollback_item(items[i], answers[i])
             sent == IF rollback_sends_request(items[i])
                     THEN Append(acc.requested, i) ELSE acc.requested
         IN  IF outcome = "deleted"
             THEN RollbackLoop(items, answers, i + 1,
                    [acc EXCEPT !.deleted_count = @ + 1, !.requested = sent,
                                !.table = delete_row(@, items[i].sku)])
             ELSE RollbackLoop(items, answers, i + 1,
                    [acc EXCEPT !.errors = Append(@, [sku |-> items[i].sku, error |-> outcome]),
                                !.requested = sent])

RollbackReturn(acc, keys) ==
    [keys |-> keys, success |-> acc.errors = <<>>,
     deleted_count |-> acc.deleted_count, errors |-> acc.errors,
     requested |-> acc.requested, table |-> acc.table]

rollback_created_products_always_local(items, answers, table) ==
    IF items = <<>>
    THEN RollbackReturn(RollbackStart(table), {"success", "message", "deleted_count"})
    ELSE RollbackReturn(RollbackLoopAlwaysLocal(items, answers, 1, RollbackStart(table)),
                        {"success", "message", "deleted_count", "errors"})

\* rollback_created_products: an empty list returns at once, without errors
rollback_created_products(items, answers, table) ==
    IF items = <<>>
    THEN RollbackReturn(RollbackStart(table), {"success", "message", "deleted_count"})
    ELSE RollbackReturn(RollbackLoop(items, answers, 1, RollbackStart(table)),
                        {"success", "message", "deleted_count", "errors"})

NoBulkReturned == BulkReturn(BulkStart(<<>>), {})

NoRollbackReturned == RollbackReturn(RollbackStart(<<>>), {})

BulkIdle ==
    /\ bulk_pc = "idle"
    /\ bulk_input = <<>>
    /\ bulk_ret = NoBulkReturned
    /\ table_before_bulk = <<>>
    /\ rollback_answers = <<>>
    /\ rollback_ret = NoRollbackReturned

CallCreateProductsBulk(products) ==
    /\ bulk_pc = "idle"
    /\ bulk_pc' = "created"
    /\ bulk_input' = products
    /\ table_before_bulk' = shopify_products
    /\ bulk_ret' = create_products_bulk(products, shopify_products)
    /\ shopify_products' = bulk_ret'.table
    /\ returned' = NothingReturned
    /\ UNCHANGED <<jds_products, rollback_answers, rollback_ret,
                   normVars, syncVars, retryVars, upsertVars, memoVars, cacheVars, restVars>>

\* the caller hands the created_products of the bulk result to the rollback
CallRollbackCreatedProducts(answers) ==
    /\ bulk_pc = "created"
    /\ "created_products" \in bulk_ret.keys
    /\ bulk_pc' = "rolled_back"
    /\ rollback_answers' = answers
    /\ rollback_ret' =
          rollback_created_products(bulk_ret.created_products, answers, shopify_products)
    /\ shopify_products' = rollback_ret'.table
    /\ returned' = NothingReturned
    /\ UNCHANGED <<jds_products, bulk_input, bulk_ret, table_before_bulk,
                   normVars, syncVars, retryVars, upsertVars, memoVars, cacheVars, restVars>>

NextBulk ==
    \/ \E products \in BulkInputs : CallCreateProductsBulk(products)
    \/ \E answers \in [1..Len(bulk_ret.created_products) -> DeleteAnswers] :
          CallRollbackCreatedProducts(answers)

-----------------------------------------------------------------------------
(* The upsert write path: JDSClient._save_product_to_db and                    *)
(* ShopifyClient._save_product_to_db with JDSProduct.save / ShopifyProduct.save *)

MaxWrites == 3      \* writes in one behaviour

WriteSkus == { <<"A","-","1">>, <<"1">> }

\* one mutable field stands for all of them; a record may not carry it
FieldValues == {"n1", "n2"}

Absent == "absent"

WriteRecords == [sku : WriteSkus, name : FieldValues \cup {Absent}]

\* where a write can fail: nowhere, at connect or SELECT, at the INSERT or
\* UPDATE statement inside save(), or at the commit
WriteFaults == {"none", "select", "statement", "commit"}

\* SELECT * FROM <table> WHERE sku = ?  (0: no row)
FindRow(table, sku) ==
    IF \E i \in 1..Len(table) : table[i].sku = sku
    THEN CHOOSE i \in 1..Len(table) : table[i].sku = sku
    ELSE 0

\* _create_product_from_data: data.get(field, default), last_updated = utcnow()
create_product_from_data(rec, t) ==
    [sku |-> rec.sku,
     name |-> IF rec.name = Absent THEN "" ELSE rec.name,
     last_updated |-> t]

\* _update_product_from_data: data.get(field, old value); the object was built
\* from the stored row, last_updated included, and that is not touched
update_product_from_data(row, rec) ==
    [row EXCEPT !.name = IF rec.name = Absent THEN @ ELSE rec.name]

\* a write path that never looks for the row and inserts every time
upsert_rows_appending(table, rec, t) ==
    Append(table, create_product_from_data(rec, t))

\* the row found is updated where it is, otherwise a row is inserted
upsert_rows(table, rec, t) ==
    LET i == FindRow(table, rec.sku)
    IN  IF i = 0 THEN Append(table, create_product_from_data(rec, t))
        ELSE [table EXCEPT ![i] = update_product_from_data(table[i], rec)]

\* JDSClient._save_product_to_db raises when connect, SELECT or commit fail;
\* a failing statement is caught inside save(conn), which returns False, and
\* the return value is not looked at
jds_save_raises(fault) == fault \in {"select", "commit"}

\* ShopifyClient._save_product_to_db raises when connect or SELECT fail; save(db)
\* catches a failing statement or commit, rolls back and returns False
shopify_save_raises(fault) == fault = "select"

NoWrite ==
    [table |-> "none", rec |-> [sku |-> <<>>, name |-> Absent], fault |-> "none",
     raised |-> FALSE, existed |-> FALSE, at |-> 0, connections_open |-> 0,
     jds_before |-> <<>>, shopify_before |-> <<>>]

UpsertIdle ==
    /\ jds_table = <<>>
    /\ shopify_table = <<>>
    /\ wclock = 0
    /\ last_write = NoWrite

WriteRecord(table, rec, fault, raised) ==
    [table |-> table, rec |-> rec, fault |-> fault, raised |-> raised,
     existed |-> FindRow(IF table = "jds" THEN jds_table ELSE shopify_table, rec.sku) # 0,
     at |-> wclock + 1, connections_open |-> 0,
     jds_before |-> jds_table, shopify_before |-> shopify_table]

\* JDSClient._save_product_to_db(product_data)
JDSClientSaveProductToDb(rec, fault) ==
    /\ wclock < MaxWrites
    /\ wclock' = wclock + 1
    /\ jds_table' = IF fault = "none" THEN upsert_rows(jds_table, rec, wclock + 1)
                    ELSE jds_table
    /\ last_write' = WriteRecord("jds", rec, fault, jds_save_raises(fault))
    /\ UNCHANGED <<shopify_table, normVars, storeVars, syncVars, retryVars, bulkVars, memoVars, cacheVars, restVars>>

\* ShopifyClient._save_product_to_db(product_data)
ShopifyClientSaveProductToDb(rec, fault) ==
    /\ wclock < MaxWrites
    /\ wclock' = wclock + 1
    /\ shopify_table' = IF fault = "none" THEN upsert_rows(shopify_table, rec, wclock + 1)
                        ELSE shopify_table
    /\ last_write' = WriteRecord("shopify", rec, fault, shopify_save_raises(fault))
    /\ UNCHANGED <<jds_table, normVars, storeVars, syncVars, retryVars, bulkVars, memoVars, cacheVars, restVars>>

NextUpsert ==
    \/ \E rec \in WriteRecords, fault \in WriteFaults : JDSClientSaveProductToDb(rec, fault)
    \/ \E rec \in WriteRecords, fault \in WriteFaults : ShopifyClientSaveProductToDb(rec, fault)

-----------------------------------------------------------------------------
(* The memoized reads: the cached decorator around the optimized queries of    *)
(* database.py, and the mutations that do or do not clear the cache            *)

MaxMemoTime == 15           \* the memoized reads' clock stops here (minutes)

StatsTtlMinutes == 5        \* @cached(ttl=300) of the three optimized queries
SkuSetTtlMinutes == 10      \* @cached(ttl=600) of get_shopify_skus_cached
DefaultOffset == 0          \* offset: int = 0
DefaultLimit == 100         \* limit: int = 100

\* the supplier SKU and the storefront SKU of the memoized reads: one key,
\* prefixed on the supplier side
MemoJdsSkus == { <<"A","-","1">> }
MemoShopifySkus == { <<"1">> }

MemoKeys ==
    {"products:unmatched", "products:matched", "comparison:stats",
     "get_shopify_skus_cached"}

\* what a key holds when it holds nothing; the value has the key's type
NoPage == [rows |-> <<>>, total |-> 0]

EmptyValue(key) ==
    IF key = "get_shopify_skus_cached" THEN [skus |-> {}]
    ELSE IF key = "comparison:stats" THEN [stats |-> ZeroStats]
    ELSE [page |-> NoPage]

NoEntry(key) == [present |-> FALSE, expires_at |-> 0, value |-> EmptyValue(key)]

\* cache_manager.get finds the key and time.time() > expires_at is false
MemoLive(m, key, t) == m[key].present /\ ~(t > m[key].expires_at)

\* cache_manager.set(cache_key, result, ttl)
memo_set(m, key, value, ttl, t) ==
    [m EXCEPT ![key] = [present |-> TRUE, expires_at |-> t + ttl, value |-> value]]

\* clear_cache()
memo_clear == [key \in MemoKeys |-> NoEntry(key)]

\* the body of get_shopify_skus_cached: the cleaned non-empty storefront skus
shopify_skus_query(shopify) ==
    {clean_sku_for_comparison(shopify[i].sku) :
        i \in {j \in 1..Len(shopify) : shopify[j].sku # <<>>}}

\* get_shopify_skus_cached() through its decorator: the set returned and the
\* cache afterwards
shopify_skus_cached(m, shopify, t) ==
    IF MemoLive(m, "get_shopify_skus_cached", t)
    THEN [skus |-> m["get_shopify_skus_cached"].value.skus, memo |-> m]
    ELSE LET skus == shopify_skus_query(shopify)
         IN  [skus |-> skus,
              memo |-> memo_set(m, "get_shopify_skus_cached", [skus |-> skus],
                                SkuSetTtlMinutes, t)]

\* unmatched_rows[offset:offset + limit]
Slice(list, offset, limit) ==
    SubSeq(list, offset + 1, IF offset + limit < Len(list) THEN offset + limit ELSE Len(list))

unmatched_rows(jds, skus) ==
    SelectSeq(jds, LAMBDA row : clean_sku_for_comparison(row.sku) \notin skus)

matched_rows(jds, skus) ==
    SelectSeq(jds, LAMBDA row : clean_sku_for_comparison(row.sku) \in skus)

\* the body of get_sku_comparison_stats_optimized, given the storefront sku set
comparison_stats_query(jds, shopify, skus) ==
    LET jds_count == Len(jds)
        unmatched_count == Len(unmatched_rows(jds, skus))
        matched_count == jds_count - unmatched_count
    IN  [jds_total |-> jds_count, shopify_total |-> Len(shopify),
         matched |-> matched_count, unmatched |-> unmatched_count,
         match_percentage |-> Percentage(matched_count, jds_count)]

\* the arguments of a paginated call: none, or offset and limit by keyword
MemoArgs ==
    {[given |-> FALSE, offset |-> DefaultOffset, limit |-> DefaultLimit]}
        \cup [given : {TRUE}, offset : 0..1, limit : 1..2]

\* key_func(*args, **kwargs) with key_func = lambda: ...: a lambda without
\* parameters raises TypeError as soon as it is handed an argument
key_func_raises(args) == args.given

NoRead ==
    [fn |-> "none", given |-> FALSE, offset |-> 0, limit |-> 0, raised |-> FALSE,
     page |-> NoPage, stats |-> ZeroStats, fresh |-> FALSE]

MemoIdle ==
    /\ memo = memo_clear
    /\ memo_now = 0
    /\ memo_ret = NoRead

\* a read through the decorator: the cached value if the key is live,
\* otherwise the query's result, stored under the key for StatsTtlMinutes
ReadResult(fn, args, raised, page, stats) ==
    [fn |-> fn, given |-> args.given, offset |-> args.offset, limit |-> args.limit,
     raised |-> raised, page |-> page, stats |-> stats, fresh |-> TRUE]

\* get_unmatched_products_optimized / get_matched_products_optimized
CallPagedOptimized(fn, key, args) ==
    /\ IF key_func_raises(args)
       THEN /\ memo_ret' = ReadResult(fn, args, TRUE, NoPage, ZeroStats)
            /\ UNCHANGED memo
       ELSE IF MemoLive(memo, key, memo_now)
       THEN /\ memo_ret' = ReadResult(fn, args, FALSE, memo[key].value.page, ZeroStats)
            /\ UNCHANGED memo
       ELSE LET inner == shopify_skus_cached(memo, shopify_products, memo_now)
                full == IF fn = "unmatched"
                        THEN unmatched_rows(jds_products, inner.skus)
                        ELSE matched_rows(jds_products, inner.skus)
                page == [rows |-> Slice(full, args.offset, args.limit),
                         total |-> Len(full)]
            IN  /\ memo_ret' = ReadResult(fn, args, FALSE, page, ZeroStats)
                /\ memo' = memo_set(inner.memo, key, [page |-> page],
                                    StatsTtlMinutes, memo_now)
    /\ UNCHANGED <<memo_now, normVars, storeVars, syncVars, retryVars, bulkVars, upsertVars, cacheVars, restVars>>

CallGetUnmatchedProductsOptimized(args) ==
    CallPagedOptimized("unmatched", "products:unmatched", args)

CallGetMatchedProductsOptimized(args) ==
    CallPagedOptimized("matched", "products:matched", args)

NoArgs == [given |-> FALSE, offset |-> DefaultOffset, limit |-> DefaultLimit]

\* get_sku_comparison_stats_optimized()
CallGetSkuComparisonStatsOptimized ==
    /\ IF MemoLive(memo, "comparison:stats", memo_now)
       THEN /\ memo_ret' = ReadResult("stats", NoArgs, FALSE, NoPage,
                                      memo["comparison:stats"].value.stats)
            /\ UNCHANGED memo
       ELSE LET inner == shopify_skus_cached(memo, shopify_products, memo_now)
                stats == comparison_stats_query(jds_products, shopify_products, inner.skus)
            IN  /\ memo_ret' = ReadResult("stats", NoArgs, FALSE, NoPage, stats)
                /\ memo' = memo_set(inner.memo, "comparison:stats", [stats |-> stats],
                                    StatsTtlMinutes, memo_now)
    /\ UNCHANGED <<memo_now, normVars, storeVars, syncVars, retryVars, bulkVars, upsertVars, cacheVars, restVars>>

\* a mutation has completed: what was read before is no longer the latest
Mutated(jds, shopify, entries) ==
    /\ jds_products' = jds
    /\ shopify_products' = shopify
    /\ returned' = NothingReturned
    /\ memo' = entries
    /\ memo_ret' = [memo_ret EXCEPT !.fresh = FALSE]
    /\ UNCHANGED <<memo_now, normVars, syncVars, retryVars, bulkVars, upsertVars, cacheVars, restVars>>

\* JDSClient.sync_products saving one product: the cache is left alone
JDSClientSyncProducts(sku) ==
    /\ sku \in Skus(jds_products) \/ Len(jds_products) < MaxJds
    /\ Mutated(Upsert(jds_products, sku), shopify_products, memo)

\* ShopifyClient.sync_products saving one product: synced_count > 0, clear_cache()
ShopifyClientSyncProducts(sku) ==
    /\ sku \in Skus(shopify_products) \/ Len(shopify_products) < MaxShopify
    /\ Mutated(jds_products, Upsert(shopify_products, sku), memo_clear)

\* create_product answered 201 for a supplier product: _save_created_product_to_db
\* inserts its raw sku; the cache is left alone
CreateProductSaved(sku) ==
    /\ sku \in Skus(jds_products)
    /\ Len(shopify_products) < MaxShopify
    /\ Mutated(jds_products, insert_created(shopify_products, sku), memo)

\* rollback_created_products for one product the storefront deleted:
\* the local row is deleted and clear_cache() is called
RollbackDeleted(sku) ==
    /\ sku \in Skus(shopify_products)
    /\ Mutated(jds_products, delete_row(shopify_products, sku), memo_clear)

\* time passes, one ttl of the optimized queries at a time
MemoTick ==
    /\ memo_now + StatsTtlMinutes <= MaxMemoTime
    /\ memo_now' = memo_now + StatsTtlMinutes
    /\ UNCHANGED <<memo, memo_ret, normVars, storeVars, syncVars, retryVars,
                   bulkVars, upsertVars, cacheVars, restVars>>

NextMemo ==
    \/ \E sku \in MemoJdsSkus : JDSClientSyncProducts(sku)
    \/ \E sku \in MemoShopifySkus : ShopifyClientSyncProducts(sku)
    \/ \E sku \in MemoJdsSkus : CreateProductSaved(sku)
    \/ \E sku \in MemoJdsSkus \cup MemoShopifySkus : RollbackDeleted(sku)
    \/ \E args \in MemoArgs : CallGetUnmatchedProductsOptimized(args)
    \/ \E args \in MemoArgs : CallGetMatchedProductsOptimized(args)
    \/ CallGetSkuComparisonStatsOptimized
    \/ MemoTick

-----------------------------------------------------------------------------
(* CacheManager: get, set, delete, clear, cleanup_expired and the counters     *)

MaxCacheOps == 4    \* CacheManager calls in one behaviour
MaxCacheTime == 2   \* the CacheManager's clock stops here (seconds)

CacheKeys == {"k1", "k2"}

CacheValues == {"v1", "v2"}

CacheTtls == 1..2

\* what get returns for a key it does not serve
PyNone == "None"

CacheAbsent == [present |-> FALSE, value |-> PyNone, expires_at |-> 0, created_at |-> 0]

ZeroCacheStats == [hits |-> 0, misses |-> 0, sets |-> 0, deletes |-> 0, expired |-> 0]

\* a get that serves the entry whatever its expires_at
cache_get_serves_expired(c, st, key, t) ==
    IF ~c[key].present
    THEN [value |-> PyNone, cache |-> c, stats |-> [st EXCEPT !.misses = @ + 1]]
    ELSE [value |-> c[key].value, cache |-> c, stats |-> [st EXCEPT !.hits = @ + 1]]

\* CacheManager.get: the value returned, the cache and the counters afterwards
cache_get(c, st, key, t) ==
    IF ~c[key].present
    THEN [value |-> PyNone, cache |-> c, stats |-> [st EXCEPT !.misses = @ + 1]]
    ELSE IF t > c[key].expires_at
    THEN [value |-> PyNone,
          cache |-> [c EXCEPT ![key] = CacheAbsent],
          stats |-> [st EXCEPT !.expired = @ + 1, !.misses = @ + 1]]
    ELSE [value |-> c[key].value, cache |-> c, stats |-> [st EXCEPT !.hits = @ + 1]]

\* a set that leaves an entry that is already there alone
cache_set_first_wins(c, key, value, ttl, t) ==
    IF c[key].present THEN c
    ELSE [c EXCEPT ![key] = [present |-> TRUE, value |-> value,
                             expires_at |-> t + ttl, created_at |-> t]]

\* CacheManager.set: the entry replaces whatever the key held
cache_set(c, key, value, ttl, t) ==
    [c EXCEPT ![key] = [present |-> TRUE, value |-> value,
                        expires_at |-> t + ttl, created_at |-> t]]

expired_keys_inclusive(c, t) ==
    {key \in CacheKeys : c[key].present /\ t >= c[key].expires_at}

\* the keys cleanup_expired removes
expired_keys(c, t) == {key \in CacheKeys : c[key].present /\ t > c[key].expires_at}

\* the entries cleanup_expired leaves in the cache
cleanup_expired(c, t) ==
    [key \in CacheKeys |-> IF key \in expired_keys(c, t) THEN CacheAbsent ELSE c[key]]

\* round(x, 2) of x = num * 100 / den, in hundredths: the nearest hundredth,
\* the even one when two are equally near
round2_down(num, den) == (num * 10000) \div den

round2(num, den) ==
    LET q == (num * 10000) \div den
        r == (num * 10000) % den
    IN  IF 2 * r > den \/ (2 * r = den /\ q % 2 = 1) THEN q + 1 ELSE q

get_stats_truncating(c, st) ==
    [size |-> Cardinality({key \in CacheKeys : c[key].present}),
     hits |-> st.hits, misses |-> st.misses,
     hit_rate |-> IF st.hits + st.misses > 0
                  THEN round2_down(st.hits, st.hits + st.misses) ELSE 0,
     sets |-> st.sets, deletes |-> st.deletes, expired |-> st.expired]

\* CacheManager.get_stats; hit_rate is in hundredths of a percent
get_stats(c, st) ==
    [size |-> Cardinality({key \in CacheKeys : c[key].present}),
     hits |-> st.hits, misses |-> st.misses,
     hit_rate |-> IF st.hits + st.misses > 0
                  THEN round2(st.hits, st.hits + st.misses) ELSE 0,
     sets |-> st.sets, deletes |-> st.deletes, expired |-> st.expired]

NoSet == [valid |-> FALSE, value |-> PyNone, expires_at |-> 0]

NoCalls == [gets |-> 0, sets |-> 0, deletes |-> 0]

NoReport ==
    [size |-> 0, hits |-> 0, misses |-> 0, hit_rate |-> 0, sets |-> 0, deletes |-> 0,
     expired |-> 0]

NoCacheCall ==
    [op |-> "none", key |-> "none", value |-> PyNone, found |-> FALSE, count |-> 0,
     at |-> 0, entry_before |-> CacheAbsent, stats_before |-> ZeroCacheStats,
     cache_before |-> [key \in CacheKeys |-> CacheAbsent], report |-> NoReport]

CacheCall(op, key, value, found, count) ==
    [op |-> op, key |-> key, value |-> value, found |-> found, count |-> count,
     at |-> cache_now,
     entry_before |-> IF key \in CacheKeys THEN cache[key] ELSE CacheAbsent,
     stats_before |-> cache_stats,
     cache_before |-> IF op = "cleanup_expired" THEN cache
                      ELSE [k \in CacheKeys |-> CacheAbsent],
     report |-> NoReport]

CacheIdle ==
    /\ cache = [key \in CacheKeys |-> CacheAbsent]
    /\ cache_stats = ZeroCacheStats
    /\ cache_now = 0
    /\ cache_ops = 0
    /\ cache_ret = NoCacheCall
    /\ last_set = [key \in CacheKeys |-> NoSet]
    /\ cache_calls = NoCalls

CacheStep ==
    /\ cache_ops < MaxCacheOps
    /\ cache_ops' = cache_ops + 1
    /\ UNCHANGED <<cache_now, normVars, storeVars, syncVars, retryVars,
                   bulkVars, upsertVars, memoVars, restVars>>

CacheGet(key) ==
    /\ CacheStep
    /\ LET r == cache_get(cache, cache_stats, key, cache_now)
       IN  /\ cache' = r.cache
           /\ cache_stats' = r.stats
           /\ cache_ret' = CacheCall("get", key, r.value, r.value # PyNone, 0)
    /\ cache_calls' = [cache_calls EXCEPT !.gets = @ + 1]
    /\ UNCHANGED last_set

CacheSet(key, value, ttl) ==
    /\ CacheStep
    /\ cache' = cache_set(cache, key, value, ttl, cache_now)
    /\ cache_stats' = [cache_stats EXCEPT !.sets = @ + 1]
    /\ cache_ret' = CacheCall("set", key, value, FALSE, 0)
    /\ last_set' = [last_set EXCEPT
          ![key] = [valid |-> TRUE, value |-> value, expires_at |-> cache_now + ttl]]
    /\ cache_calls' = [cache_calls EXCEPT !.sets = @ + 1]

CacheDelete(key) ==
    /\ CacheStep
    /\ cache' = [cache EXCEPT ![key] = CacheAbsent]
    /\ cache_stats' = IF cache[key].present
                      THEN [cache_stats EXCEPT !.deletes = @ + 1]
                      ELSE cache_stats
    /\ cache_ret' = CacheCall("delete", key, PyNone, cache[key].present, 0)
    /\ last_set' = [last_set EXCEPT ![key] = NoSet]
    /\ cache_calls' = IF cache[key].present
                      THEN [cache_calls EXCEPT !.deletes = @ + 1]
                      ELSE cache_calls

CacheClear ==
    /\ CacheStep
    /\ cache' = [key \in CacheKeys |-> CacheAbsent]
    /\ cache_stats' = ZeroCacheStats
    /\ cache_ret' = CacheCall("clear", "none", PyNone, FALSE, 0)
    /\ last_set' = [key \in CacheKeys |-> NoSet]
    /\ cache_calls' = NoCalls

CacheCleanupExpired ==
    /\ CacheStep
    /\ LET gone == expired_keys(cache, cache_now)
       IN  /\ cache' = cleanup_expired(cache, cache_now)
           /\ cache_stats' = [cache_stats EXCEPT !.expired = @ + Cardinality(gone)]
           /\ cache_ret' = CacheCall("cleanup_expired", "none", PyNone, FALSE,
                                     Cardinality(gone))
    /\ UNCHANGED <<last_set, cache_calls>>

\* get_stats() reads the cache and the counters and writes neither
CacheGetStats ==
    /\ cache_ret' = [CacheCall("get_stats", "none", PyNone, FALSE, 0) EXCEPT
                        !.report = get_stats(cache, cache_stats)]
    /\ UNCHANGED <<cache, cache_stats, cache_now, cache_ops, last_set, cache_calls,
                   normVars, storeVars, syncVars, retryVars, bulkVars, upsertVars,
                   memoVars, restVars>>

CacheTick ==
    /\ cache_now < MaxCacheTime
    /\ cache_now' = cache_now + 1
    /\ UNCHANGED <<cache, cache_stats, cache_ops, cache_ret, last_set, cache_calls,
                   normVars, storeVars, syncVars, retryVars, bulkVars, upsertVars,
                   memoVars, restVars>>

NextCache ==
    \/ \E key \in CacheKeys : CacheGet(key)
    \/ \E key \in CacheKeys, value \in CacheValues, ttl \in CacheTtls :
          CacheSet(key, value, ttl)
    \/ \E key \in CacheKeys : CacheDelete(key)
    \/ CacheClear
    \/ CacheCleanupExpired
    \/ CacheGetStats
    \/ CacheTick

-----------------------------------------------------------------------------
(* BackgroundSyncManager: the worker loop and the manager calls that request   *)
(* handlers make                                                               *)

BgSkus == { <<"A","-","1">>, <<"1">> }

\* sync_products([sku]) returns success True, returns success False, or raises
SyncOutcomes == {"success", "failure", "exception"}

\* result.get('message', 'Unknown error') and str(e)
failure_message(outcome) ==
    IF outcome = "failure" THEN "No products available to sync" ELSE "exception text"

request_sync_pending_only(sku, pending, completed) ==
    IF sku \notin pending
    THEN [accepted |-> TRUE, pending |-> pending \cup {sku}]
    ELSE [accepted |-> FALSE, pending |-> pending]

\* request_sync under the lock: what it returns and pending_syncs afterwards
request_sync(sku, pending, completed) ==
    IF sku \notin completed /\ sku \notin pending
    THEN [accepted |-> TRUE, pending |-> pending \cup {sku}]
    ELSE [accepted |-> FALSE, pending |-> pending]

\* start_worker: running is set and a thread started only when there is no
\* live worker thread
start_worker(is_running, alive) ==
    IF ~alive THEN [running |-> TRUE, starts |-> TRUE]
    ELSE [running |-> is_running, starts |-> FALSE]

get_sync_status(sku, pending, completed, failed) ==
    IF sku \in completed THEN "completed"
    ELSE IF sku \in pending THEN "pending"
    ELSE IF sku \in DOMAIN failed THEN "failed"
    ELSE "not_requested"

\* self.failed_syncs.get(sku)
get_sync_error(sku, failed) == IF sku \in DOMAIN failed THEN failed[sku] ELSE PyNone

\* self.failed_syncs[sku] = message
dict_set(dict, key, value) ==
    [k \in DOMAIN dict \cup {key} |-> IF k = key THEN value ELSE dict[k]]

\* the empty dict
EmptyDict == <<>>

HandlerOps == {"request_sync", "get_sync_status", "get_sync_error"}

NoHandlerCall == [op |-> "none", sku |-> None]

NoBgReturn ==
    [op |-> "none", sku |-> None, accepted |-> FALSE, status |-> "none", error |-> PyNone,
     repeated |-> FALSE, pending_before |-> {}, completed_before |-> {},
     failed_before |-> EmptyDict]

BgIdle ==
    /\ pending_syncs = {}
    /\ completed_syncs = {}
    /\ failed_syncs = EmptyDict
    /\ sync_lock = "free"
    /\ running = FALSE
    /\ worker_alive = FALSE
    /\ stopped_on = {}
    /\ worker_pc = "loop"
    /\ worker_sku = None
    /\ handler_pc = "idle"
    /\ handler_call = NoHandlerCall
    /\ bg_ret = NoBgReturn
    /\ bg_last_request = None

BgFrame == UNCHANGED <<normVars, storeVars, syncVars, retryVars, bulkVars, upsertVars,
                       memoVars, cacheVars, driftVars, priceVars, lastVars>>

\* the worker enters `with self.sync_lock`, finds pending_syncs non-empty and
\* pops one sku (set.pop: any of them); a pass that finds it empty changes nothing
WorkerTake(sku) ==
    /\ worker_alive
    /\ running
    /\ worker_pc = "loop"
    /\ sync_lock = "free"
    /\ sku \in pending_syncs
    /\ sync_lock' = "worker"
    /\ pending_syncs' = pending_syncs \ {sku}
    /\ worker_sku' = sku
    /\ worker_pc' = "syncing"
    /\ bg_last_request' = None
    /\ UNCHANGED <<completed_syncs, failed_syncs, running, worker_alive, stopped_on,
                   handler_pc, handler_call, bg_ret>>
    /\ BgFrame

\* sync_products([sku]) comes back, still inside the with block; the worker
\* files the sku and leaves the block
WorkerFinish(outcome) ==
    /\ worker_pc = "syncing"
    /\ IF outcome = "success"
       THEN /\ completed_syncs' = completed_syncs \cup {worker_sku}
            /\ UNCHANGED failed_syncs
       ELSE /\ failed_syncs' = dict_set(failed_syncs, worker_sku, failure_message(outcome))
            /\ UNCHANGED completed_syncs
    /\ sync_lock' = "free"
    /\ worker_pc' = "loop"
    /\ worker_sku' = None
    /\ bg_last_request' = None
    /\ UNCHANGED <<pending_syncs, running, worker_alive, stopped_on, handler_pc,
                   handler_call, bg_ret>>
    /\ BgFrame

\* a request handler reaches `with self.sync_lock` of one of the three calls
HandlerCall(op, sku) ==
    /\ handler_pc = "idle"
    /\ handler_pc' = "waiting"
    /\ handler_call' = [op |-> op, sku |-> sku]
    /\ UNCHANGED <<pending_syncs, completed_syncs, failed_syncs, sync_lock, running,
                   worker_alive, stopped_on, worker_pc, worker_sku, bg_ret, bg_last_request>>
    /\ BgFrame

\* the handler gets the lock, runs the body of its call and releases the lock
HandlerRun ==
    /\ handler_pc = "waiting"
    /\ sync_lock = "free"
    /\ LET op == handler_call.op
           sku == handler_call.sku
           req == request_sync(sku, pending_syncs, completed_syncs)
           before == [NoBgReturn EXCEPT !.op = op, !.sku = sku,
                                        !.pending_before = pending_syncs,
                                        !.completed_before = completed_syncs,
                                        !.failed_before = failed_syncs]
       IN  IF op = "request_sync"
           THEN /\ pending_syncs' = req.pending
                /\ running' = IF req.accepted THEN start_worker(running, worker_alive).running
                               ELSE running
                /\ worker_alive' = (worker_alive \/ req.accepted)
                /\ stopped_on' = IF req.accepted THEN stopped_on \ {sku} ELSE stopped_on
                /\ bg_ret' = [before EXCEPT !.accepted = req.accepted,
                                            !.repeated = (bg_last_request = sku)]
                /\ bg_last_request' = sku
           ELSE /\ bg_ret' = IF op = "get_sync_status"
                             THEN [before EXCEPT !.status =
                                      get_sync_status(sku, pending_syncs, completed_syncs,
                                                      failed_syncs)]
                             ELSE [before EXCEPT !.error = get_sync_error(sku, failed_syncs)]
                /\ UNCHANGED <<pending_syncs, running, worker_alive, stopped_on,
                               bg_last_request>>
    /\ handler_pc' = "idle"
    /\ handler_call' = NoHandlerCall
    /\ UNCHANGED <<completed_syncs, failed_syncs, sync_lock, worker_pc, worker_sku>>
    /\ BgFrame

ClearCompletedSyncs ==
    /\ sync_lock = "free"
    /\ completed_syncs # {}
    /\ completed_syncs' = {}
    /\ bg_last_request' = None
    /\ UNCHANGED <<pending_syncs, failed_syncs, sync_lock, running, worker_alive,
                   stopped_on, worker_pc, worker_sku, handler_pc, handler_call, bg_ret>>
    /\ BgFrame

\* stop_worker: running is cleared; the join gives up after 5 seconds, so the
\* call can return while the worker thread is still alive
StopWorker ==
    /\ worker_alive
    /\ running
    /\ running' = FALSE
    /\ stopped_on' = stopped_on \cup pending_syncs
    /\ bg_last_request' = None
    /\ UNCHANGED <<pending_syncs, completed_syncs, failed_syncs, sync_lock, worker_alive,
                   worker_pc, worker_sku, handler_pc, handler_call, bg_ret>>
    /\ BgFrame

\* the worker evaluates `while self.running`, finds it False and the thread ends
WorkerExit ==
    /\ worker_alive
    /\ worker_pc = "loop"
    /\ ~running
    /\ worker_alive' = FALSE
    /\ UNCHANGED <<pending_syncs, completed_syncs, failed_syncs, sync_lock, running,
                   stopped_on, worker_pc, worker_sku, handler_pc, handler_call, bg_ret,
                   bg_last_request>>
    /\ BgFrame

NextBg ==
    \/ \E sku \in BgSkus : WorkerTake(sku)
    \/ \E outcome \in SyncOutcomes : WorkerFinish(outcome)
    \/ \E op \in HandlerOps, sku \in BgSkus : HandlerCall(op, sku)
    \/ HandlerRun
    \/ ClearCompletedSyncs
    \/ StopWorker
    \/ WorkerExit

-----------------------------------------------------------------------------
(* The handlers that compare the local storefront row with a live check:      *)
(* search_sku and add_or_update_sku_to_shopify                                 *)

DriftSkus == { <<"A","-","1">>, <<"1">> }

\* check_product_exists_by_sku: exists True, exists False, or exists False with
\* an error (HTTP error, GraphQL errors, an exception inside the client)
LiveAnswers == {"exists", "absent", "error"}

\* get_shopify_price_for_sku: SELECT current_price FROM shopify_products
\* WHERE sku = clean_sku_for_comparison(sku)
get_shopify_price_for_sku(sku, shopify) ==
    IF \E i \in 1..Len(shopify) : shopify[i].sku = clean_sku_for_comparison(sku)
    THEN "price" ELSE PyNone

NoDriftAnswer ==
    [handler |-> "none", sku |-> None, live |-> "none", success |-> FALSE, status |-> 0,
     local_before |-> FALSE, local_after |-> FALSE, already_in_shopify |-> FALSE, shopify_live_exists |-> "none",
     sync_requested |-> FALSE, sync_flag |-> "none", raised |-> FALSE,
     table_before |-> <<>>]

DriftIdle == drift_ret = NoDriftAnswer

DriftFrame == UNCHANGED <<normVars, syncVars, retryVars, bulkVars, upsertVars, memoVars,
                          cacheVars, priceVars, lastVars>>

\* the background_sync_* flag search_sku sets after request_sync
sync_flag(accepted, status) ==
    IF accepted THEN "started"
    ELSE IF status = "completed" THEN "completed"
    ELSE IF status = "pending" THEN "started"
    ELSE IF status = "failed" THEN "failed"
    ELSE "none"

\* search_sku from the local lookup on, for a sku the supplier knows.  The
\* local row is found, the live check is made; live and not local requests a
\* background sync; local and not live imports mark_product_as_deleted from
\* database, which defines no such name: the ImportError is caught by the
\* except clause around the live check, so nothing is deleted and the flags
\* keep the local answer.  The answer is success True either way.
SearchSku(sku, live) ==
    /\ sync_lock = "free"
    /\ UNCHANGED storeVars
    /\ LET local == get_shopify_price_for_sku(sku, shopify_products) # PyNone
           req == request_sync(sku, pending_syncs, completed_syncs)
           asks == live = "exists" /\ ~local
           marks == live # "exists" /\ local
           raised == marks /\ ~ImportFromDatabase("mark_product_as_deleted")
       IN  /\ pending_syncs' = IF asks THEN req.pending ELSE pending_syncs
           /\ running' = IF asks /\ req.accepted
                          THEN start_worker(running, worker_alive).running ELSE running
           /\ worker_alive' = (worker_alive \/ (asks /\ req.accepted))
           /\ stopped_on' = IF asks /\ req.accepted THEN stopped_on \ {sku} ELSE stopped_on
           /\ bg_last_request' = IF asks THEN sku ELSE bg_last_request
           /\ drift_ret' =
                 [handler |-> "search_sku", sku |-> sku, live |-> live, success |-> TRUE,
                  status |-> 200, local_before |-> local,
                  local_after |-> (get_shopify_price_for_sku(sku, shopify_products') # PyNone),
                  already_in_shopify |-> (local /\ (~marks \/ raised)),
                  shopify_live_exists |-> IF raised THEN "None"
                                          ELSE IF live = "exists" THEN "True" ELSE "False",
                  sync_requested |-> asks,
                  sync_flag |-> IF asks
                                THEN sync_flag(req.accepted,
                                               get_sync_status(sku, pending_syncs,
                                                               completed_syncs, failed_syncs))
                                ELSE IF marks /\ ~raised THEN "completed" ELSE "none",
                  raised |-> raised, table_before |-> shopify_products]
    /\ UNCHANGED <<completed_syncs, failed_syncs, sync_lock, worker_pc,
                   worker_sku, handler_pc, handler_call, bg_ret>>
    /\ DriftFrame

\* add_or_update_sku_to_shopify from 'Check if already in Shopify' on: the
\* import of get_shopify_variant_id_for_sku from database fails, the handler's
\* except clause answers 500 and neither the update nor the creation is reached
AddOrUpdateSkuToShopify(sku) ==
    /\ ~ImportFromDatabase("get_shopify_variant_id_for_sku")
    /\ UNCHANGED <<storeVars, bgVars>>
    /\ drift_ret' =
          [NoDriftAnswer EXCEPT !.handler = "add_or_update", !.sku = sku, !.status = 500,
                                !.raised = TRUE,
                                !.local_before =
                                    (get_shopify_price_for_sku(sku, shopify_products) # PyNone),
                                !.local_after =
                                    (get_shopify_price_for_sku(sku, shopify_products') # PyNone),
                                !.table_before = shopify_products]
    /\ DriftFrame

NextDrift ==
    \/ \E sku \in DriftSkus, live \in LiveAnswers : SearchSku(sku, live)
    \/ \E sku \in DriftSkus : AddOrUpdateSkuToShopify(sku)
    \/ \E sku \in DriftSkus : ShopifySaveProductToDb(sku)
    \/ \E sku \in DriftSkus : WorkerTake(sku)
    \/ \E outcome \in SyncOutcomes : WorkerFinish(outcome)

-----------------------------------------------------------------------------
(* PricingCalculator.  Amounts are whole cents; a Python value is None, a      *)
(* number or a string of characters                                            *)

MaxCents == 1300    \* largest generated wholesale amount, in cents

Under5Cents == 500  \* `x_float < 5`

PyVal(kind, cents, text) == [kind |-> kind, cents |-> cents, text |-> text]

NoneVal == PyVal("none", 0, <<>>)

AbsentVal == PyVal("absent", 0, <<>>)

Num(cents) == PyVal("num", cents, <<>>)

Str(text) == PyVal("str", 0, text)

DigitChars == <<"0", "1", "2", "3", "4", "5", "6", "7", "8", "9">>

IsDigit(ch) == \E d \in 1..10 : DigitChars[d] = ch

DigitValue(ch) == (CHOOSE d \in 1..10 : DigitChars[d] = ch) - 1

AllDigits(text) == \A i \in 1..Len(text) : IsDigit(text[i])

RECURSIVE DigitsValue(_)
DigitsValue(text) ==
    IF text = <<>> THEN 0
    ELSE 10 * DigitsValue(SubSeq(text, 1, Len(text) - 1)) + DigitValue(text[Len(text)])

Dots(text) == {i \in 1..Len(text) : text[i] = "."}

\* the digits before and after the decimal point of an unsigned literal
WholePart(text) ==
    IF Dots(text) = {} THEN text
    ELSE SubSeq(text, 1, (CHOOSE i \in Dots(text) : TRUE) - 1)

FractionPart(text) ==
    IF Dots(text) = {} THEN <<>>
    ELSE SubSeq(text, (CHOOSE i \in Dots(text) : TRUE) + 1, Len(text))

\* float(text) succeeds: digits with at most one point and at least one digit
\* (the generated strings carry no sign, exponent or blanks)
float_parses(text) ==
    /\ Cardinality(Dots(text)) <= 1
    /\ AllDigits(WholePart(text))
    /\ AllDigits(FractionPart(text))
    /\ Len(WholePart(text)) + Len(FractionPart(text)) > 0

\* float(text) in cents, for literals with at most two decimals
float_of_string(text) ==
    LET frac == FractionPart(text)
    IN  100 * DigitsValue(WholePart(text))
          + (IF Len(frac) = 0 THEN 0
             ELSE IF Len(frac) = 1 THEN 10 * DigitsValue(frac)
             ELSE DigitsValue(SubSeq(frac, 1, 2)))

\* `float(x) if x is not None else 0.0`: the amount, or that float() raised
to_float_numbers_only(v) ==
    IF v.kind = "num" THEN [raised |-> FALSE, cents |-> v.cents]
    ELSE IF v.kind \in {"absent", "none"} THEN [raised |-> FALSE, cents |-> 0]
    ELSE [raised |-> TRUE, cents |-> 0]

to_float(v) ==
    IF v.kind \in {"absent", "none"} THEN [raised |-> FALSE, cents |-> 0]
    ELSE IF v.kind = "num" THEN [raised |-> FALSE, cents |-> v.cents]
    ELSE IF float_parses(v.text) THEN [raised |-> FALSE, cents |-> float_of_string(v.text)]
    ELSE [raised |-> TRUE, cents |-> 0]

\* bool(v)
Truthy(v) ==
    IF v.kind = "num" THEN v.cents # 0
    ELSE IF v.kind = "str" THEN Len(v.text) > 0
    ELSE FALSE

\* math.ceil(x * 2.5) - 0.01, for x >= 0 in cents
regular_formula(x) == 100 * ((25 * x + 999) \div 1000) - 1

\* x * 3
under5_formula(x) == 3 * x

calculate_price_five_included(x) ==
    IF x <= Under5Cents THEN under5_formula(x) ELSE regular_formula(x)

\* calculate_price(regular_formula, x, under5_formula) for a float x
calculate_price(x) ==
    IF x < Under5Cents THEN under5_formula(x) ELSE regular_formula(x)

calculate_shopify_price(v) ==
    LET f == to_float(v)
    IN  IF f.raised THEN 0
        ELSE IF f.cents <= 0 THEN 0
        ELSE calculate_price(f.cents)

\* the keys calculate_all_tiers files the six tier fields of a product record
\* under; the first is the unit price, field less_than_case_price
TierKeys ==
    <<"less_than_case", "one_case", "five_cases", "ten_cases", "twenty_cases",
      "forty_cases">>

\* jds_product.get(field)
dict_get(product, i) == IF product[i].kind = "absent" THEN NoneVal ELSE product[i]

is_valid_price(v) ==
    LET f == to_float(v) IN ~f.raised /\ f.cents > 0

\* calculate_all_tiers: key -> price, for the keys it files
calculate_all_tiers(product) ==
    LET filed == {i \in 1..6 : Truthy(dict_get(product, i)) /\ is_valid_price(dict_get(product, i))}
    IN  [key \in {TierKeys[i] : i \in filed} |->
            calculate_shopify_price(
                dict_get(product, CHOOSE i \in filed : TierKeys[i] = key))]

get_recommended_price(product) ==
    IF ~Truthy(dict_get(product, 1)) THEN 0
    ELSE calculate_shopify_price(dict_get(product, 1))

price_warnings(recommended) ==
    (IF recommended <= 0 THEN {"No recommended price calculated"} ELSE {})
    \cup (IF recommended > 100000 THEN {"Price seems unusually high"}
          ELSE IF recommended > 0 /\ recommended < 100 THEN {"Price seems unusually low"}
          ELSE {})

validate_pricing_data_unit_price_only(product) ==
    IF ~Truthy(dict_get(product, 1))
    THEN [is_valid |-> FALSE, errors |-> <<"No pricing data available">>, warnings |-> {},
          calculated_prices |-> <<>>, recommended_price |-> 0]
    ELSE [is_valid |-> TRUE, errors |-> <<>>,
          warnings |-> price_warnings(get_recommended_price(product)),
          calculated_prices |-> calculate_all_tiers(product),
          recommended_price |-> get_recommended_price(product)]

validate_pricing_data(product) ==
    IF ~\E i \in 1..6 : Truthy(dict_get(product, i))
    THEN [is_valid |-> FALSE, errors |-> <<"No pricing data available">>, warnings |-> {},
          calculated_prices |-> <<>>, recommended_price |-> 0]
    ELSE [is_valid |-> TRUE, errors |-> <<>>,
          warnings |-> price_warnings(get_recommended_price(product)),
          calculated_prices |-> calculate_all_tiers(product),
          recommended_price |-> get_recommended_price(product)]

\* the strings handed to the calculator
PriceStrings ==
    { <<"4", ".", "5", "0">>, <<"4", ".", "9", "9">>, <<"5">>, <<"5", ".", "0", "0">>,
      <<"0">>, <<"1", "2", ".", "5">>, <<"a", "b", "c">>, <<>>, <<".">> }

PriceInputs ==
    {NoneVal} \cup {Num(c) : c \in (0 - 2)..MaxCents} \cup {Str(text) : text \in PriceStrings}

\* what one tier field of a generated product record holds
TierValues ==
    {AbsentVal, Num(0), Num(0 - 100), Num(600), Str(<<"4", ".", "5", "0">>),
     Str(<<"a", "b", "c">>)}

Products == [1..6 -> TierValues]

NoProduct == [i \in 1..6 |-> AbsentVal]

NoValidation ==
    [is_valid |-> FALSE, errors |-> <<>>, warnings |-> {}, calculated_prices |-> <<>>,
     recommended_price |-> 0]

NoPriceCall ==
    [fn |-> "none", arg |-> NoneVal, price |-> 0, product |-> NoProduct,
     validation |-> NoValidation]

PriceIdle == price_ret = NoPriceCall

PriceFrame == UNCHANGED <<normVars, storeVars, syncVars, retryVars, bulkVars, upsertVars,
                          memoVars, cacheVars, bgVars, driftVars, lastVars>>

\* the calculator is handed one amount or one product record
PriceInit ==
    \/ \E v \in PriceInputs : price_ret = [NoPriceCall EXCEPT !.arg = v]
    \/ \E product \in Products : price_ret = [NoPriceCall EXCEPT !.product = product]

CallCalculateShopifyPrice ==
    /\ price_ret.fn = "none"
    /\ price_ret' = [price_ret EXCEPT !.fn = "calculate_shopify_price",
                                      !.price = calculate_shopify_price(price_ret.arg)]
    /\ PriceFrame

CallValidatePricingData ==
    /\ price_ret.fn = "none"
    /\ price_ret' = [price_ret EXCEPT !.fn = "validate_pricing_data",
                                      !.validation = validate_pricing_data(price_ret.product)]
    /\ PriceFrame

NextPrice ==
    \/ CallCalculateShopifyPrice
    \/ CallValidatePricingData

-----------------------------------------------------------------------------
(* The clients' connectivity checks and sync calls: credentials, the supplier *)
(* sync's sub-requests and the counting of saved records                       *)

MaxSkus == 101      \* longest SKU list handed to the supplier sync

MaxReturned == 1    \* most records one upstream answer carries

BatchSize == 50     \* batch_size = 50

Min(a, b) == IF a <= b THEN a ELSE b

\* how a fetch ends once a request is sent: a list of records, or a failure
\* that fetch_product_details / fetch_all_products catch and answer with []
FetchOutcomes == {"ok", "failed"}

\* the answers of the probe request of test_connection
ProbeOutcomes == {"accepted", "refused", "exception"}

\* the records of one answer, each with the place where its write fails
ReturnedFaults == UNION {[1..k -> WriteFaults] : k \in 0..MaxReturned}

Request(client, first, last) == [client |-> client, first |-> first, last |-> last]

ZeroAcc == [synced_count |-> 0, errors |-> 0, written |-> 0, not_written |-> 0,
            failed_requests |-> 0]

NoClientCall == [client |-> "none", op |-> "none", configured |-> FALSE, given |-> FALSE,
                 n |-> 0]

NoClientReturn == [connected |-> FALSE, success |-> FALSE, message |-> "none", count |-> 0,
                   errors |-> 0]

ClientIdle ==
    /\ cs_pc = "idle"
    /\ cs_call = NoClientCall
    /\ cs_sent = <<>>
    /\ cs_next = 1
    /\ cs_acc = ZeroAcc
    /\ cs_ret = NoClientReturn

ClientFrame == UNCHANGED <<normVars, storeVars, syncVars, retryVars, bulkVars, upsertVars,
                           memoVars, cacheVars, bgVars, driftVars, priceVars, connVars, addVars>>

\* JDSClient.test_connection / ShopifyClient.test_connection: False at once
\* without credentials, otherwise one probe request
test_connection(client, configured, probe) ==
    IF ~configured THEN [connected |-> FALSE, sent |-> <<>>]
    ELSE [connected |-> (probe = "accepted"), sent |-> <<Request(client, 0, 0)>>]

CallTestConnection(client, configured, probe) ==
    /\ cs_pc \in {"idle", "done"}
    /\ ~configured => probe = "refused"
    /\ LET r == test_connection(client, configured, probe)
       IN  /\ cs_ret' = [NoClientReturn EXCEPT !.connected = r.connected]
           /\ cs_sent' = r.sent
    /\ cs_call' = [NoClientCall EXCEPT !.client = client, !.op = "test_connection",
                                       !.configured = configured]
    /\ cs_pc' = "done"
    /\ cs_next' = 1
    /\ cs_acc' = ZeroAcc
    /\ ClientFrame

\* what saving the records of one answer adds to synced_count and errors: a
\* write that raises (its fault is in raising) is listed in errors, every other
\* one is counted
count_saves(acc, faults, raising) ==
    [acc EXCEPT
       !.synced_count = @ + Cardinality({k \in DOMAIN faults : faults[k] \notin raising}),
       !.errors = @ + Cardinality({k \in DOMAIN faults : faults[k] \in raising}),
       !.written = @ + Cardinality({k \in DOMAIN faults : faults[k] = "none"}),
       !.not_written = @ + Cardinality({k \in DOMAIN faults : faults[k] # "none"})]

\* JDSClient.sync_products(skus) is entered with a list of n SKUs (given), or
\* with None and n SKUs in the local storefront table; None and no SKU returns
\* at once
JDSSyncStart(configured, given, n) ==
    /\ cs_pc \in {"idle", "done"}
    /\ cs_call' = [client |-> "jds", op |-> "sync_products", configured |-> configured,
                   given |-> given, n |-> n]
    /\ cs_sent' = <<>>
    /\ cs_next' = 1
    /\ cs_acc' = ZeroAcc
    /\ IF ~given /\ n = 0
       THEN /\ cs_pc' = "done"
            /\ cs_ret' = [NoClientReturn EXCEPT !.message = "No SKUs available to sync"]
       ELSE /\ cs_pc' = "batching"
            /\ cs_ret' = NoClientReturn
    /\ ClientFrame

\* skus[i:i + batch_size]: the last position of the batch that starts at first
batch_last(first, n) == Min(first + BatchSize - 1, n)

\* one round of the loop: fetch_product_details(batch_skus) sends one request
\* unless the token is missing, and the records it returns are saved
JDSSyncBatch(fetch, faults) ==
    /\ cs_pc = "batching"
    /\ cs_next <= cs_call.n
    /\ LET last == batch_last(cs_next, cs_call.n)
           sends == cs_call.configured
       IN  /\ (~sends \/ fetch = "failed") => faults = <<>>
           /\ ~sends => fetch = "failed"
           /\ Len(faults) <= last - cs_next + 1
           /\ cs_sent' = IF sends THEN Append(cs_sent, Request("jds", cs_next, last))
                          ELSE cs_sent
           /\ cs_acc' = [count_saves(cs_acc, faults,
                                     {f \in WriteFaults : jds_save_raises(f)}) EXCEPT
                            !.failed_requests = IF sends /\ fetch = "failed"
                                                THEN @ + 1 ELSE @]
           /\ cs_next' = last + 1
    /\ UNCHANGED <<cs_pc, cs_call, cs_ret>>
    /\ ClientFrame

\* the loop is over
JDSSyncReturn ==
    /\ cs_pc = "batching"
    /\ cs_next > cs_call.n
    /\ cs_pc' = "done"
    /\ cs_ret' = [NoClientReturn EXCEPT !.success = TRUE, !.message = "Successfully synced",
                                        !.count = cs_acc.synced_count,
                                        !.errors = cs_acc.errors]
    /\ UNCHANGED <<cs_call, cs_sent, cs_next, cs_acc>>
    /\ ClientFrame

\* ShopifyClient.sync_products(): fetch_all_products answers [] without
\* credentials or when its request fails; no product is a failure result
ShopifySyncProducts(configured, fetch, faults) ==
    /\ cs_pc \in {"idle", "done"}
    /\ (~configured \/ fetch = "failed") => faults = <<>>
    /\ ~configured => fetch = "failed"
    /\ LET acc == [count_saves(ZeroAcc, faults,
                                   {f \in WriteFaults : shopify_save_raises(f)}) EXCEPT
                     !.failed_requests = IF configured /\ fetch = "failed" THEN 1 ELSE 0]
       IN  /\ cs_acc' = acc
           /\ cs_ret' = IF faults = <<>>
                        THEN [NoClientReturn EXCEPT
                                !.message = "No products available to sync"]
                        ELSE [NoClientReturn EXCEPT
                                !.success = TRUE, !.message = "Successfully synced",
                                !.count = acc.synced_count, !.errors = acc.errors]
    /\ cs_call' = [client |-> "shopify", op |-> "sync_products", configured |-> configured,
                   given |-> FALSE, n |-> 0]
    /\ cs_sent' = IF configured THEN <<Request("shopify", 0, 0)>> ELSE <<>>
    /\ cs_pc' = "done"
    /\ cs_next' = 1
    /\ ClientFrame

NextClient ==
    \/ \E client \in {"jds", "shopify"}, configured \in BOOLEAN, probe \in ProbeOutcomes :
          CallTestConnection(client, configured, probe)
    \/ \E configured \in BOOLEAN, given \in BOOLEAN, n \in 0..MaxSkus :
          JDSSyncStart(configured, given, n)
    \/ \E fetch \in FetchOutcomes, faults \in ReturnedFaults : JDSSyncBatch(fetch, faults)
    \/ JDSSyncReturn
    \/ \E configured \in BOOLEAN, fetch \in FetchOutcomes, faults \in ReturnedFaults :
          ShopifySyncProducts(configured, fetch, faults)

-----------------------------------------------------------------------------
(* DataSyncManager.test_connections and get_connection_status *)

\* timedelta(minutes=5) in get_connection_status
ConnectionTtlMinutes == 5

\* what a client's test_connection returns; both catch every exception
ConnectionAnswers == {"True", "False"}

NoConnectionCall ==
    [fn |-> "none", probed |-> <<>>, jds |-> "None", shopify |-> "None", at |-> 0,
     jds_before |-> "None", shopify_before |-> "None", last_before |-> NoSync]

ConnIdle ==
    /\ jds_connected = "None"
    /\ shopify_connected = "None"
    /\ last_connection_test = NoSync
    /\ conn_ret = NoConnectionCall

ConnFrame == UNCHANGED <<normVars, storeVars, syncVars, retryVars, bulkVars, upsertVars,
                         memoVars, cacheVars, bgVars, driftVars, priceVars, clientVars,
                         addVars>>

connection_stale_inclusive(jds, shopify, last, t) ==
    \/ jds = "None"
    \/ shopify = "None"
    \/ last = NoSync
    \/ t - last >= ConnectionTtlMinutes

\* the condition of get_connection_status under which it tests again
connection_stale(jds, shopify, last, t) ==
    \/ jds = "None"
    \/ shopify = "None"
    \/ last = NoSync
    \/ t - last > ConnectionTtlMinutes

ConnectionCall(fn, probed, jds, shopify) ==
    [fn |-> fn, probed |-> probed, jds |-> jds, shopify |-> shopify, at |-> now,
     jds_before |-> jds_connected, shopify_before |-> shopify_connected,
     last_before |-> last_connection_test]

\* test_connections(): both clients are probed, the answers and the time stored
Probe(fn, jds_answer, shopify_answer) ==
    /\ jds_connected' = jds_answer
    /\ shopify_connected' = shopify_answer
    /\ last_connection_test' = now
    /\ conn_ret' = ConnectionCall(fn, <<"jds", "shopify">>, jds_answer, shopify_answer)

\* DataSyncManager.test_connections, as /api/test/connections calls it
TestConnections(jds_answer, shopify_answer) ==
    /\ Probe("test_connections", jds_answer, shopify_answer)
    /\ ConnFrame

\* DataSyncManager.get_connection_status, the connectivity part of the status
GetConnectionStatus(jds_answer, shopify_answer) ==
    /\ IF connection_stale(jds_connected, shopify_connected, last_connection_test, now)
       THEN Probe("get_connection_status", jds_answer, shopify_answer)
       ELSE /\ conn_ret' = ConnectionCall("get_connection_status", <<>>,
                                          jds_connected, shopify_connected)
            /\ UNCHANGED <<jds_connected, shopify_connected, last_connection_test>>
    /\ ConnFrame

NextConn ==
    \/ \E jds_answer \in ConnectionAnswers, shopify_answer \in ConnectionAnswers :
          TestConnections(jds_answer, shopify_answer)
    \/ \E jds_answer \in ConnectionAnswers, shopify_answer \in ConnectionAnswers :
          GetConnectionStatus(jds_answer, shopify_answer)
    \/ Tick

-----------------------------------------------------------------------------
(* The /api/sku/add-to-shopify handler: add_sku_to_shopify *)

MaxCreated == 3     \* most products created on the storefront

AddSkus == { <<"A","-","1">>, <<"1">> }

\* the tier fields of the supplier's record: a unit price of 6.00, a one-case
\* price only, no price at all, a unit price that is not a number
OnlyTier(i, value) == [k \in 1..6 |-> IF k = i THEN value ELSE AbsentVal]

AddProducts ==
    { OnlyTier(1, Num(600)), OnlyTier(2, Num(600)), NoProduct,
      OnlyTier(1, Str(<<"a", "b", "c">>)) }

\* what fetch_product_details([sku]) hands back: nothing, or a record whose
\* 'sku' is the supplier's spelling, the one asked for or its cleaned form
SupplierAnswers(sku) ==
    {[found |-> FALSE, sku |-> None, product |-> NoProduct]} \cup
    { [found |-> TRUE, sku |-> s, product |-> pr] :
        s \in {sku, clean_sku_for_external_api(sku)}, pr \in AddProducts }

NoPrice == 0 - 1

NoAdd ==
    [sku |-> None, record_sku |-> None, answer |-> "none", price |-> NoPrice,
     local_before |-> FALSE, created_before |-> FALSE, write |-> "none"]

AddIdle ==
    /\ storefront = <<>>
    /\ add_ret = NoAdd

AddFrame == UNCHANGED <<normVars, syncVars, retryVars, bulkVars, upsertVars, memoVars,
                        cacheVars, bgVars, driftVars, priceVars, clientVars, connVars>>

\* the products of the storefront that carry sku
CreatedFor(sku, created) == {i \in 1..Len(created) : created[i].sku = sku}

\* _save_created_product_to_db: INSERT of jds_product.get('sku'); a failure,
\* the UNIQUE index included, is logged and nothing is stored
save_created_product_to_db(shopify, sku, fault) ==
    IF fault # "none" \/ sku \in Skus(shopify) THEN shopify
    ELSE Append(shopify, Row(sku))

\* add_sku_to_shopify after the supplier's record is there: the answer it
\* gives without calling the storefront, or "create"
add_decision(validation, local_price) ==
    IF ~validation.is_valid THEN "validation failed"
    ELSE IF local_price # PyNone THEN "already exists"
    ELSE "create"

\* add_sku_to_shopify(sku): fetch the supplier's record, validate its prices,
\* look the sku up in shopify_products, create the product with the
\* recommended price and store the created product locally
AddSkuToShopify(sku, answer, outcome, fault) ==
    /\ Len(storefront) < MaxCreated
    /\ Len(shopify_products) < MaxShopify
    /\ answer \in SupplierAnswers(sku)
    /\ LET validation == validate_pricing_data(answer.product)
           local_price == get_shopify_price_for_sku(sku, shopify_products)
           decision == IF ~answer.found THEN "no product"
                       ELSE add_decision(validation, local_price)
           creates == decision = "create" /\ outcome = "created"
           before == [NoAdd EXCEPT !.sku = sku, !.record_sku = answer.sku,
                                   !.local_before = (local_price # PyNone),
                                   !.created_before =
                                       (CreatedFor(answer.sku, storefront) # {})]
       IN  /\ decision # "create" => outcome = "failed"
           /\ ~creates => fault = "none"
           /\ storefront' = IF creates
                            THEN Append(storefront, [sku |-> answer.sku,
                                                     price |-> validation.recommended_price])
                            ELSE storefront
           /\ shopify_products' = IF creates
                                  THEN save_created_product_to_db(shopify_products,
                                                                  answer.sku, fault)
                                  ELSE shopify_products
           /\ add_ret' = IF decision # "create" THEN [before EXCEPT !.answer = decision]
                         ELSE [before EXCEPT
                                 !.answer = IF creates THEN "created" ELSE "create failed",
                                 !.price = validation.recommended_price,
                                 !.write = fault]
    /\ UNCHANGED <<jds_products, returned>>
    /\ AddFrame

NextAdd ==
    \/ \E sku \in AddSkus,
          answer \in UNION {SupplierAnswers(s) : s \in AddSkus},
          outcome \in {"created", "failed"}, fault \in {"none", "statement"} :
          AddSkuToShopify(sku, answer, outcome, fault)
    \/ \E sku \in AddSkus : AddOrUpdateSkuToShopify(sku)

-----------------------------------------------------------------------------
(* Specifications *)

LastIdle == ClientIdle /\ ConnIdle /\ AddIdle

RestIdle == BgIdle /\ DriftIdle /\ PriceIdle /\ LastIdle

LaterIdle == BulkIdle /\ UpsertIdle /\ MemoIdle /\ CacheIdle /\ RestIdle

Idle ==
    /\ NormIdle
    /\ StoreInit
    /\ SyncInit
    /\ RetryInit
    /\ LaterIdle

InitNorm == NormInit /\ StoreInit /\ SyncInit /\ RetryInit /\ LaterIdle

\* the bulk creation starts from a table the storefront sync has filled
InitBulk ==
    /\ NormIdle /\ SyncInit /\ RetryInit /\ LaterIdle
    /\ jds_products = <<>>
    /\ shopify_products \in BulkTables
    /\ returned = NothingReturned

InitPrice ==
    /\ NormIdle /\ StoreInit /\ SyncInit /\ RetryInit
    /\ BulkIdle /\ UpsertIdle /\ MemoIdle /\ CacheIdle /\ BgIdle /\ DriftIdle
    /\ LastIdle
    /\ PriceInit

SpecNorm == InitNorm /\ [][NextNorm]_vars

SpecStore == Idle /\ [][NextStore]_vars

SpecSync == Idle /\ [][NextSync]_vars

SpecRetry == Idle /\ [][NextRetry]_vars

SpecBulk == InitBulk /\ [][NextBulk]_vars

SpecUpsert == Idle /\ [][NextUpsert]_vars

SpecMemo == Idle /\ [][NextMemo]_vars

SpecCache == Idle /\ [][NextCache]_vars

SpecBg == Idle /\ [][NextBg]_vars

\* the worker is a thread of its own and its upstream calls return: it leaves
\* the loop or finishes a sync once it can; every pending SKU is popped and a
\* waiting handler gets the lock if that is possible again and again
BgFairness ==
    /\ \A sku \in BgSkus : SF_vars(WorkerTake(sku))
    /\ WF_vars(\E outcome \in SyncOutcomes : WorkerFinish(outcome))
    /\ WF_vars(WorkerExit)
    /\ SF_vars(HandlerRun)

SpecBgFair == Idle /\ [][NextBg]_vars /\ BgFairness

SpecDrift == Idle /\ [][NextDrift]_vars

SpecPrice == InitPrice /\ [][NextPrice]_vars

SpecClient == Idle /\ [][NextClient]_vars

SpecConn == Idle /\ [][NextConn]_vars

SpecAdd == Idle /\ [][NextAdd]_vars

-----------------------------------------------------------------------------
(* C1 - C3: matched, unmatched and the comparison statistics *)

Max(S) == CHOOSE x \in S : \A y \in S : y <= x

HyphenPositions(s) == {i \in 1..Len(s) : s[i] = "-"}

\* the text after the last hyphen, read off the positions of the hyphens
AfterLastHyphen(s) ==
    IF s = None THEN None
    ELSE IF HyphenPositions(s) = {} THEN s
    ELSE SubSeq(s, Max(HyphenPositions(s)) + 1, Len(s))

\* some storefront row whose sku, cleaned by the same rule, is the supplier row's key
KeysAgree(row) ==
    \E j \in 1..Len(shopify_products) :
        AfterLastHyphen(row.sku) = AfterLastHyphen(shopify_products[j].sku)

\* some storefront row whose sku, exactly as stored, is the supplier row's key
KeyIsStoredSku(row) ==
    \E j \in 1..Len(shopify_products) :
        AfterLastHyphen(row.sku) = shopify_products[j].sku

\* C1 as amended: a supplier row is reported as matched if and only if its
\* comparison key equals the comparison key of some storefront row, the
\* storefront sku being cleaned by the same last-hyphen rule before the test.
C1_MatchedIffCleanedKeysAgree ==
    /\ "matched" \in returned.fresh =>
          \A i \in 1..Len(jds_products) :
              (jds_products[i] \in Range(returned.matched)) <=> KeysAgree(jds_products[i])
    /\ "unmatched" \in returned.fresh =>
          \A i \in 1..Len(jds_products) :
              (jds_products[i] \in Range(returned.unmatched)) <=> ~KeysAgree(jds_products[i])

\* a bare supplier key matched through a storefront row stored with a prefix
C1_Witness ==
    /\ "matched" \in returned.fresh
    /\ Skus(shopify_products) = {<<"A","-","1">>}
    /\ Row(<<"1">>) \in Range(returned.matched)

\* C1 as stated: a supplier row is reported as matched if and only if its
\* comparison key equals the sku of some storefront row exactly as stored.
C1_StorefrontSkuComparedAsStored ==
    /\ "matched" \in returned.fresh =>
          \A i \in 1..Len(jds_products) :
              (jds_products[i] \in Range(returned.matched)) <=> KeyIsStoredSku(jds_products[i])
    /\ "unmatched" \in returned.fresh =>
          \A i \in 1..Len(jds_products) :
              (jds_products[i] \in Range(returned.unmatched)) <=> ~KeyIsStoredSku(jds_products[i])

\* C2: the matched list and the unmatched list partition the supplier table:
\* every supplier row is in exactly one of them and they hold no other row.
C2_MatchedUnmatchedPartition ==
    {"matched", "unmatched"} \subseteq returned.fresh =>
        /\ \A i \in 1..Len(jds_products) :
              (jds_products[i] \in Range(returned.matched))
                  # (jds_products[i] \in Range(returned.unmatched))
        /\ Range(returned.matched) \cup Range(returned.unmatched) = Range(jds_products)
        /\ Len(returned.matched) + Len(returned.unmatched) = Len(jds_products)

C2_Witness ==
    /\ {"matched", "unmatched"} \subseteq returned.fresh
    /\ Len(returned.matched) = 1
    /\ Len(returned.unmatched) = 1
    /\ \E i \in 1..Len(jds_products) : HasHyphen(jds_products[i].sku)

\* C3: the statistics count the supplier rows, the storefront rows and the
\* unmatched rows, matched is supplier_total - unmatched, and the percentage
\* is matched * 100 / supplier_total (to 0.01), or 0 for an empty supplier table.
C3_ComparisonStats ==
    "stats" \in returned.fresh =>
        LET st == returned.stats
        IN  /\ st.jds_total = Len(jds_products)
            /\ st.shopify_total = Len(shopify_products)
            /\ st.unmatched =
                  Cardinality({i \in 1..Len(jds_products) : ~KeysAgree(jds_products[i])})
            /\ "unmatched" \in returned.fresh => st.unmatched = Len(returned.unmatched)
            /\ st.matched = st.jds_total - st.unmatched
            /\ st.matched + st.unmatched = st.jds_total
            /\ st.jds_total = 0 => st.match_percentage = 0
            /\ st.jds_total > 0 =>
                  /\ st.match_percentage * st.jds_total <= st.matched * 10000
                  /\ st.matched * 10000 < (st.match_percentage + 1) * st.jds_total

\* one of two supplier rows matched: 50 percent
C3_Witness ==
    /\ "stats" \in returned.fresh
    /\ returned.stats.jds_total = 2
    /\ returned.stats.matched = 1
    /\ returned.stats.unmatched = 1
    /\ returned.stats.match_percentage = 5000

-----------------------------------------------------------------------------
(* C4: normalizer rule *)

\* C4: both normalizers return the text after the last hyphen of a SKU that
\* has one, return a SKU without hyphen unchanged, and return an empty or
\* missing SKU unchanged; "ABC-123", "A-B-123" and "123" all give "123".
C4_NormalizerRule ==
    /\ normOut # NoCall => normOut[2] = AfterLastHyphen(normIn)
    /\ normOut # NoCall /\ normIn \in ExampleSkus => normOut[2] = <<"1","2","3">>
    /\ normOut # NoCall /\ Falsy(normIn) => normOut[2] = normIn

C4_Witness ==
    /\ normOut[1] = "clean_sku_for_external_api"
    /\ normIn = <<"A","-","B","-","1","2","3">>
    /\ normOut[2] = <<"1","2","3">>

-----------------------------------------------------------------------------
(* C5 - C7: the cooldown gate and the two client syncs *)

\* the last call was DataSyncManager.sync_all_data
CoreCall == sync_ret.entry = "sync_all_data"

\* the last call ran the synchronization
SyncRan == client_calls # <<>>

Elapsed == sync_ret.at - sync_ret.last_sync_before

\* C5 as stated: sync_all(force) runs the synchronization if and only if force
\* is true, or no sync has been recorded, or at least 10 minutes have passed
\* since the last sync.
C5_GateIsTenMinutes ==
    CoreCall =>
        (SyncRan <=> \/ sync_ret.force
                     \/ sync_ret.last_sync_before = NoSync
                     \/ Elapsed >= HandlerCooldownMinutes)

\* C6 as stated: a call skipped by the cooldown gate returns a result that is
\* marked as skipped and carries a nonzero cooldown_remaining.
C6_SkippedCarriesCooldownRemaining ==
    CoreCall /\ ~SyncRan =>
        /\ "cooldown_remaining" \in sync_ret.keys
        /\ ~sync_ret.success

\* the call was not stopped by the gate of sync_all_data
PassedGate ==
    \/ sync_ret.force
    \/ sync_ret.last_sync_before = NoSync
    \/ Elapsed >= SkipWindowMinutes

\* C7: a sync_all_data call that passes the gate attempts the supplier sync and
\* then the storefront sync whatever the first returned; success is true iff at
\* least one side succeeded, and the message tells the three cases apart.
C7_BothSidesAttempted ==
    CoreCall /\ PassedGate =>
        /\ client_calls = <<"jds", "shopify">>
        /\ sync_ret.success <=> (sync_ret.jds_success \/ sync_ret.shopify_success)
        /\ sync_ret.message =
              IF ~sync_ret.jds_success /\ ~sync_ret.shopify_success
                  THEN "Both JDS and Shopify sync failed"
              ELSE IF ~sync_ret.jds_success
                  THEN "JDS sync failed, but Shopify sync succeeded"
              ELSE IF ~sync_ret.shopify_success
                  THEN "Shopify sync failed, but JDS sync succeeded"
              ELSE "All data synced successfully"

\* the supplier sync failed and the storefront sync was still attempted and succeeded
C7_Witness ==
    /\ CoreCall
    /\ client_calls = <<"jds", "shopify">>
    /\ ~sync_ret.jds_success
    /\ sync_ret.shopify_success
    /\ sync_ret.success
    /\ sync_ret.message = "JDS sync failed, but Shopify sync succeeded"

-----------------------------------------------------------------------------
(* C8 - C10: the retry wrappers *)

\* how the wrapper's tests sort a result: 'validation' is looked for first
Class(result) ==
    IF result.success THEN "success"
    ELSE IF HasValidation(result.text) THEN "validation"
    ELSE IF HasRateLimit(result.text) THEN "rate limit"
    ELSE "other"

AllRateLimited ==
    /\ attempts_seen # <<>>
    /\ \A i \in 1..Len(attempts_seen) : Class(attempts_seen[i].result) = "rate limit"

C9_OtherErrorsNotRetried ==
    \A i \in 1..Len(attempts_seen) :
        Class(attempts_seen[i].result) \in {"validation", "other"} =>
            /\ i = Len(attempts_seen)
            /\ retry_pc = "done"
            /\ retry_ret = attempts_seen[i].result
            /\ op_calls = i

C9_Witness ==
    /\ retry_pc = "done"
    /\ retry_op = "create"
    /\ op_calls = 1
    /\ Class(retry_ret) = "other"
    /\ attempts_seen[1].event.call = "rejected"

\* an upstream event of one of the three transient kinds
Transient(e) ==
    \/ e.check \in {"timeout", "server_error", "rate_limited"}
    \/ e.call \in {"timeout", "server_error", "rate_limited"}

\* C10 as stated: a transient upstream error (timeout, 5xx or rate-limit
\* signal) is retried up to the retry cap before a failure is returned.
C10_TransientErrorsRetriedToCap ==
    ( /\ retry_pc = "done"
      /\ ~retry_ret.success
      /\ \A i \in 1..Len(attempts_seen) : Transient(attempts_seen[i].event) )
    => op_calls = MaxRetries + 1

-----------------------------------------------------------------------------
(* C11 - C13: bulk creation and rollback *)

\* C11: create_products_bulk attempts every record in input order, whatever
\* the earlier records did, and returns one result entry per record in input
\* order, with created_count + failed_count = n and created_count the number
\* of entries marked successful; five records with the third failing
\* validation give 4 created, 1 failed and 5 entries.
C11_BulkAttemptsEveryItem ==
    bulk_pc # "idle" =>
        LET n == Len(bulk_input)
            res == bulk_ret.results
        IN  /\ Len(res) = n
            /\ Len(bulk_ret.attempted) = n
            /\ \A i \in 1..n :
                  /\ bulk_ret.attempted[i] = bulk_input[i].sku
                  /\ res[i].sku = bulk_input[i].sku
                  /\ res[i].success <=> (bulk_input[i].outcome = "created")
            /\ bulk_ret.created_count + bulk_ret.failed_count = n
            /\ bulk_ret.created_count = Cardinality({i \in 1..n : res[i].success})
            /\ bulk_input = ExampleBulk =>
                  /\ bulk_ret.created_count = 4
                  /\ bulk_ret.failed_count = 1
                  /\ Len(res) = 5
                  /\ ~res[3].success
                  /\ res[3].error = "validation"

C11_Witness ==
    /\ bulk_pc = "created"
    /\ bulk_input = ExampleBulk
    /\ bulk_ret.created_count = 4
    /\ bulk_ret.results[4].success

\* the items handed to the rollback, and whether the storefront accepted the
\* deletion of item i
RollbackItems == bulk_ret.created_products

DeleteAccepted(i) ==
    /\ RollbackItems[i].product_id = "str"
    /\ rollback_answers[i] = "ok"

C13_RollbackUndoesBulk ==
    ( /\ bulk_pc = "rolled_back"
      /\ \A i \in 1..Len(rollback_answers) : rollback_answers[i] = "ok" )
    => /\ rollback_ret.deleted_count = bulk_ret.created_count
       /\ rollback_ret.errors = <<>>
       /\ shopify_products = table_before_bulk

-----------------------------------------------------------------------------
(* C14 - C16: the upsert write path *)

\* the table the latest write went to, now and before the write
WrittenTable == IF last_write.table = "jds" THEN jds_table ELSE shopify_table

WrittenBefore ==
    IF last_write.table = "jds" THEN last_write.jds_before ELSE last_write.shopify_before

RowsOf(table, sku) == {i \in 1..Len(table) : table[i].sku = sku}

WriteDone == last_write.table # "none" /\ last_write.fault = "none"

WriteFailed == last_write.table # "none" /\ last_write.fault # "none"

\* C14: the write path is keyed by raw sku: no table ever holds two rows with
\* one sku, and a write for a sku that has a row updates that row where it is
\* (no row is added, no other row changes, nothing is raised) and leaves it
\* holding the record's fields; a write for a new sku adds exactly one row.
C14_UpsertKeyedBySku ==
    /\ \A sku \in WriteSkus :
          /\ Cardinality(RowsOf(jds_table, sku)) <= 1
          /\ Cardinality(RowsOf(shopify_table, sku)) <= 1
    /\ WriteDone =>
          LET rec == last_write.rec
              i == FindRow(WrittenTable, rec.sku)
              j == FindRow(WrittenBefore, rec.sku)
          IN  /\ Cardinality(RowsOf(WrittenTable, rec.sku)) = 1
              /\ ~last_write.raised
              /\ rec.name # Absent => WrittenTable[i].name = rec.name
              /\ last_write.existed =>
                    /\ i = j
                    /\ Len(WrittenTable) = Len(WrittenBefore)
                    /\ \A k \in 1..Len(WrittenTable) : k # i => WrittenTable[k] = WrittenBefore[k]
              /\ ~last_write.existed =>
                    /\ j = 0
                    /\ i = Len(WrittenBefore) + 1
                    /\ SubSeq(WrittenTable, 1, Len(WrittenBefore)) = WrittenBefore

\* the same supplier record written a second time, next to another row
C14_Witness ==
    /\ WriteDone
    /\ last_write.table = "jds"
    /\ last_write.existed
    /\ Len(jds_table) = 2
    /\ last_write.rec.name # Absent
    /\ last_write.jds_before[FindRow(last_write.jds_before, last_write.rec.sku)].name
          = last_write.rec.name

\* C15 as stated: a write for a sku that already has a row leaves the row's
\* last_updated at the time of that write, strictly later than it was before.
C15_LastUpdatedRefreshed ==
    WriteDone /\ last_write.existed =>
        LET i == FindRow(WrittenTable, last_write.rec.sku)
        IN  /\ WrittenTable[i].last_updated = last_write.at
            /\ WrittenTable[i].last_updated > WrittenBefore[i].last_updated

\* C16 as stated: a write that fails part-way leaves every row as it was, is
\* signalled to the caller, and releases its connection.
C16_FailedWriteRolledBackAndSignalled ==
    WriteFailed =>
        /\ jds_table = last_write.jds_before
        /\ shopify_table = last_write.shopify_before
        /\ last_write.raised
        /\ last_write.connections_open = 0

-----------------------------------------------------------------------------
(* C17, C18: the memoized reads *)

\* the page a paginated read has to return for the store as it is now
PageOfStore(fn, offset, limit) ==
    LET full == IF fn = "unmatched"
                THEN get_unmatched_products(jds_products, shopify_products)
                ELSE get_matched_products(jds_products, shopify_products)
    IN  [rows |-> Slice(full, offset, limit), total |-> Len(full)]

\* C17 as stated: once a sync or mutation that changed the store has completed,
\* the next memoized read (unmatched list, matched list, comparison stats, all
\* built on the storefront-SKU set) returns what the store holds now, not a
\* value computed before the change.
C17_MutationInvalidatesMemo ==
    memo_ret.fresh /\ ~memo_ret.raised =>
        /\ memo_ret.fn = "stats" =>
              memo_ret.stats = get_sku_comparison_stats(jds_products, shopify_products)
        /\ memo_ret.fn \in {"unmatched", "matched"} =>
              memo_ret.page = PageOfStore(memo_ret.fn, memo_ret.offset, memo_ret.limit)

\* C18 as stated: for every offset and limit, whatever calls came before, the
\* paginated unmatched and matched reads return the rows at positions
\* [offset, offset + limit) of the full list and the size of the full list.
C18_PageAndTotalForEveryOffsetAndLimit ==
    memo_ret.fresh /\ memo_ret.given /\ memo_ret.fn \in {"unmatched", "matched"} =>
        /\ ~memo_ret.raised
        /\ memo_ret.page.total = PageOfStore(memo_ret.fn, memo_ret.offset, memo_ret.limit).total
        /\ memo_ret.page.rows = PageOfStore(memo_ret.fn, memo_ret.offset, memo_ret.limit).rows

-----------------------------------------------------------------------------
(* C19, C20: the cache round trip and the lazy eviction *)

\* the latest call was get(k); what the latest set of k left for it
GetMade == cache_ret.op = "get"

SetOfKey == last_set[cache_ret.key]

\* C19: a get(k) made before the entry expires, with no delete or clear of k
\* since the latest set(k, v, ttl), returns that v and counts as a hit; a
\* get(k) after a delete or clear of k (and no later set) returns None.
C19_CacheRoundTrip ==
    GetMade =>
        /\ SetOfKey.valid /\ cache_ret.at <= SetOfKey.expires_at =>
              /\ cache_ret.value = SetOfKey.value
              /\ cache_stats.hits = cache_ret.stats_before.hits + 1
              /\ cache_stats.misses = cache_ret.stats_before.misses
        /\ ~SetOfKey.valid =>
              /\ cache_ret.value = PyNone
              /\ cache_stats.hits = cache_ret.stats_before.hits

\* k was set twice and the get, made in time, returned the second value
C19_Witness ==
    /\ GetMade
    /\ SetOfKey.valid
    /\ cache_stats.sets = 2
    /\ cache_ret.value = "v2"
    /\ cache_ret.at > 0
    /\ cache_now = cache_ret.at
    /\ cache[cache_ret.key].created_at > 0

\* C20: a get(k) made after the entry's expires_at returns None, removes the
\* entry on that read and adds one to misses and one to expired; a value is
\* never returned after its expires_at.
C20_ExpiredReadEvicts ==
    GetMade =>
        /\ cache_ret.entry_before.present /\ SetOfKey.valid
                /\ cache_ret.at > SetOfKey.expires_at =>
              /\ cache_ret.value = PyNone
              /\ ~cache[cache_ret.key].present
              /\ cache_stats.misses = cache_ret.stats_before.misses + 1
              /\ cache_stats.expired = cache_ret.stats_before.expired + 1
              /\ cache_stats.hits = cache_ret.stats_before.hits
        /\ cache_ret.value # PyNone =>
              /\ SetOfKey.valid
              /\ cache_ret.at <= SetOfKey.expires_at

\* the entry was read once in time and once after it had expired
C20_Witness ==
    /\ GetMade
    /\ cache_ret.entry_before.present
    /\ cache_ret.at > SetOfKey.expires_at
    /\ cache_ret.value = PyNone
    /\ cache_stats.hits = 1
    /\ cache_stats.expired = 1

-----------------------------------------------------------------------------
(* C21, C22: the counters, get_stats and cleanup_expired *)

StatsRead == cache_ret.op = "get_stats"

Gets == cache_stats.hits + cache_stats.misses

StoredKeys == {key \in CacheKeys : cache[key].present}

CountersFollowCalls ==
    /\ Gets = cache_calls.gets
    /\ cache_stats.sets = cache_calls.sets
    /\ cache_stats.deletes = cache_calls.deletes
    /\ StatsRead =>
          /\ cache_ret.report.size = Cardinality(StoredKeys)
          /\ cache_ret.report.hits = cache_stats.hits
          /\ cache_ret.report.misses = cache_stats.misses
          /\ cache_ret.report.sets = cache_stats.sets
          /\ cache_ret.report.deletes = cache_stats.deletes
          /\ Gets = 0 => cache_ret.report.hit_rate = 0

Distance(a, b) == IF a >= b THEN a - b ELSE b - a

\* C21 as stated: since the latest clear, hits + misses is the number of get
\* calls, sets the number of set calls, deletes the number of delete calls that
\* returned true, size the number of stored entries, and hit_rate is exactly
\* hits * 100 / (hits + misses), or 0 when there was no get.
C21_HitRateIsTheExactQuotient ==
    /\ CountersFollowCalls
    /\ StatsRead /\ Gets > 0 =>
          cache_ret.report.hit_rate * Gets = cache_stats.hits * 10000

\* C21 (amended): the counters and size are as stated, and hit_rate is
\* hits * 100 / (hits + misses) rounded to two decimals (at most half a
\* hundredth away from the quotient), or 0 when there was no get.
C21_StatsCountCallsSinceClear ==
    /\ CountersFollowCalls
    /\ StatsRead /\ Gets > 0 =>
          2 * Distance(cache_ret.report.hit_rate * Gets, cache_stats.hits * 10000) <= Gets

\* a hit rate of two hits in three gets, read with one entry stored
C21_Witness ==
    /\ StatsRead
    /\ cache_ret.report.hits = 2
    /\ cache_ret.report.misses = 1
    /\ cache_ret.report.hit_rate = 6667
    /\ cache_ret.report.size = 1
    /\ cache_calls.gets = 3

CleanupMade == cache_ret.op = "cleanup_expired"

\* the entries whose expires_at had passed when cleanup_expired ran
PassedBefore ==
    {key \in CacheKeys : /\ cache_ret.cache_before[key].present
                         /\ cache_ret.at > cache_ret.cache_before[key].expires_at}

\* C22: cleanup_expired removes exactly the entries whose expires_at has
\* passed, returns their number and adds it to the expired counter; every
\* other entry keeps its value and expiry, and hits, misses, sets and deletes
\* are unchanged.
C22_CleanupRemovesExactlyTheExpired ==
    CleanupMade =>
        /\ \A key \in CacheKeys :
              IF key \in PassedBefore THEN ~cache[key].present
              ELSE cache[key] = cache_ret.cache_before[key]
        /\ cache_ret.count = Cardinality(PassedBefore)
        /\ cache_stats.expired = cache_ret.stats_before.expired + Cardinality(PassedBefore)
        /\ cache_stats.hits = cache_ret.stats_before.hits
        /\ cache_stats.misses = cache_ret.stats_before.misses
        /\ cache_stats.sets = cache_ret.stats_before.sets
        /\ cache_stats.deletes = cache_ret.stats_before.deletes

\* a sweep that removed one entry and kept one whose expiry is the current second
C22_Witness ==
    /\ CleanupMade
    /\ cache_ret.count = 1
    /\ \E key \in CacheKeys :
          /\ cache[key].present
          /\ cache[key].expires_at = cache_ret.at

-----------------------------------------------------------------------------
(* C23 - C25: the background worker's sets, request_sync and the lock *)

FailedSkus == DOMAIN failed_syncs

\* C23: in every reachable state the pending, completed and failed sets are
\* pairwise disjoint, whatever the interleaving of request_sync calls and
\* worker steps.
C23_SetsPairwiseDisjoint ==
    /\ pending_syncs \cap completed_syncs = {}
    /\ pending_syncs \cap FailedSkus = {}
    /\ completed_syncs \cap FailedSkus = {}

\* C24: request_sync(sku) adds sku to pending and returns true iff sku was
\* neither pending nor completed, and otherwise returns false and leaves the
\* three sets as they were; a second request for the same sku with no worker
\* step in between changes nothing.  (Stated for the states in which no worker
\* step has followed the request.)
C24_RequestSyncIdempotent ==
    bg_ret.op = "request_sync" /\ bg_last_request = bg_ret.sku =>
        /\ bg_ret.accepted <=>
              /\ bg_ret.sku \notin bg_ret.pending_before
              /\ bg_ret.sku \notin bg_ret.completed_before
        /\ bg_ret.accepted => pending_syncs = bg_ret.pending_before \cup {bg_ret.sku}
        /\ ~bg_ret.accepted => pending_syncs = bg_ret.pending_before
        /\ completed_syncs = bg_ret.completed_before
        /\ failed_syncs = bg_ret.failed_before
        /\ bg_ret.repeated => ~bg_ret.accepted /\ pending_syncs = bg_ret.pending_before

\* a second request for a sku that is already pending, after the worker completed another
C24_Witness ==
    /\ bg_ret.op = "request_sync"
    /\ bg_last_request = bg_ret.sku
    /\ bg_ret.repeated
    /\ ~bg_ret.accepted
    /\ bg_ret.sku \in pending_syncs
    /\ completed_syncs # {}

\* C25: the worker does not hold the lock that guards the three sets while
\* it performs the upstream sync, so no handler call waits for that sync.
C25_WorkerSyncsWithoutTheLock ==
    worker_pc = "syncing" => sync_lock # "worker"

-----------------------------------------------------------------------------
(* C27: update_price and the 'variant deleted upstream' flag *)

ReportedAbsent(e) == e.check = "not_found" \/ e.call = "not_found"

CheckFailedOtherwise(e) == e.check \notin {"ok", "not_found"}

\* C27: every call of update_product_price flags its result variant_not_found
\* iff the storefront answered that the variant is absent; any other failure
\* of the existence check is a failure without the flag.
C27_FlaggedIffReportedAbsent ==
    retry_op = "update_price" =>
        \A i \in 1..Len(attempts_seen) :
            LET e == attempts_seen[i].event
                result == attempts_seen[i].result
            IN  /\ result.variant_not_found <=> ReportedAbsent(e)
                /\ CheckFailedOtherwise(e) => ~result.success /\ ~result.variant_not_found

-----------------------------------------------------------------------------
(* C26: drift between the local row and the live check *)

Searched == drift_ret.handler = "search_sku"

\* C26: a lookup that finds a local row while the live check says the product
\* does not exist removes the local row; one that finds no local row while the
\* live check says it exists requests a background resync of the sku; both
\* return a successful result.
C26_DriftCorrected ==
    Searched =>
        /\ drift_ret.local_before /\ drift_ret.live = "absent" =>
              /\ drift_ret.success
              /\ ~drift_ret.local_after
        /\ ~drift_ret.local_before /\ drift_ret.live = "exists" =>
              /\ drift_ret.success
              /\ drift_ret.sync_requested

-----------------------------------------------------------------------------
(* C28 - C30: the markup rule, its examples and validate_pricing_data *)

Priced == price_ret.fn = "calculate_shopify_price"

\* the amount handed in, when it is a number
Wholesale == price_ret.arg.cents

Retail == price_ret.price

\* d whole dollars is the smallest whole-dollar amount not below 2.5 * x
SmallestDollarsNotBelow(d, x) ==
    /\ 1000 * d >= 25 * x
    /\ 1000 * (d - 1) < 25 * x

\* C28: for every wholesale amount x > 0 in whole cents the retail price is
\* 3 * x when x < 5.00, otherwise the smallest whole-dollar amount not below
\* 2.5 * x minus one cent (x = 5.00 included); a non-positive or absent x
\* gives 0.
C28_MarkupRule ==
    /\ Priced /\ price_ret.arg.kind = "num" =>
          /\ Wholesale > 0 /\ Wholesale < 500 => Retail = 3 * Wholesale
          /\ Wholesale >= 500 =>
                /\ (Retail + 1) % 100 = 0
                /\ SmallestDollarsNotBelow((Retail + 1) \div 100, Wholesale)
          /\ Wholesale <= 0 => Retail = 0
    /\ Priced /\ price_ret.arg.kind = "none" => Retail = 0

\* the boundary: 5.00 is priced by the regular formula
C28_Witness ==
    /\ Priced
    /\ price_ret.arg = Num(500)
    /\ Retail = 1299

HandedNumber(cents) == Priced /\ price_ret.arg = Num(cents)

HandedString(text) == Priced /\ price_ret.arg = Str(text)

ExamplesOtherThanFive ==
    /\ HandedNumber(499) => Retail = 1497
    /\ HandedNumber(0) => Retail = 0
    /\ HandedNumber(450) => Retail = 1350
    /\ HandedString(<<"4", ".", "5", "0">>) => Retail = 1350

\* C29 as stated: price(4.99) = 14.97, price(5.00) = 12.49, price(0) = 0 and
\* the string "4.50" is priced as the number 4.50.
C29_FiveDollarsGivesTwelveFortyNine ==
    /\ ExamplesOtherThanFive
    /\ HandedNumber(500) => Retail = 1249

\* C29 (amended): price(4.99) = 14.97, price(5.00) = ceil(5.00 * 2.5) - 0.01
\* = 12.99, price(0) = 0 and the string "4.50" is priced as the number 4.50.
C29_PricingExamples ==
    /\ ExamplesOtherThanFive
    /\ HandedNumber(500) => Retail = 1299

\* the string "4.50" has been priced
C29_Witness ==
    /\ HandedString(<<"4", ".", "5", "0">>)
    /\ Retail = 1350

Validated == price_ret.fn = "validate_pricing_data"

Field(i) == price_ret.product[i]

\* the field is absent, None, zero or the empty string
FalsyField(i) ==
    \/ Field(i).kind \in {"absent", "none"}
    \/ Field(i).kind = "num" /\ Field(i).cents = 0
    \/ Field(i).kind = "str" /\ Field(i).text = <<>>

\* the amount of a field that holds one: a number, or a string float() reads
HoldsAmount(i) ==
    \/ Field(i).kind = "num"
    \/ Field(i).kind = "str" /\ float_parses(Field(i).text)

AmountOf(i) ==
    IF Field(i).kind = "num" THEN Field(i).cents ELSE float_of_string(Field(i).text)

PositiveTiers == {i \in 1..6 : HoldsAmount(i) /\ AmountOf(i) > 0}

\* the price the markup rule of C28 gives a positive amount
RulePrice(x, price) ==
    IF x < 500 THEN price = 3 * x
    ELSE /\ (price + 1) % 100 = 0
         /\ SmallestDollarsNotBelow((price + 1) \div 100, x)

\* C30: validate answers is_valid false with 'No pricing data available' iff
\* all six tier fields are absent or falsy; in every case calculated_prices
\* holds exactly the tiers that are present and > 0, each at its rule price,
\* and recommended_price is the rule price of the unit price, 0 when the unit
\* price is absent or not positive.
C30_ValidatePricingData ==
    Validated =>
        LET v == price_ret.validation
        IN  /\ ~v.is_valid <=> \A i \in 1..6 : FalsyField(i)
            /\ ~v.is_valid <=> v.errors = <<"No pricing data available">>
            /\ DOMAIN v.calculated_prices = {TierKeys[i] : i \in PositiveTiers}
            /\ \A i \in PositiveTiers :
                  RulePrice(AmountOf(i), v.calculated_prices[TierKeys[i]])
            /\ IF 1 \in PositiveTiers
               THEN RulePrice(AmountOf(1), v.recommended_price)
               ELSE v.recommended_price = 0

\* a record without a unit price whose other tiers hold a number and a string
C30_Witness ==
    /\ Validated
    /\ price_ret.validation.is_valid
    /\ Field(1).kind = "absent"
    /\ price_ret.validation.recommended_price = 0
    /\ DOMAIN price_ret.validation.calculated_prices = {"one_case", "five_cases"}
    /\ price_ret.validation.calculated_prices["one_case"] = 1499
    /\ price_ret.validation.calculated_prices["five_cases"] = 1350

-----------------------------------------------------------------------------
(* C31: missing credentials *)

ClientReturned(op) == cs_pc = "done" /\ cs_call.op = op

\* C31: when a client's credentials are missing, its connectivity check
\* returns false, its sync call returns success = false with a message saying
\* that the client is not configured, and neither sends a network request.
\* Stated on the result's success flag and the requests sent; no message of
\* either sync names the configuration.
C31_MissingCredentialsFailWithoutRequest ==
    (cs_pc = "done" /\ ~cs_call.configured) =>
        /\ cs_sent = <<>>
        /\ cs_call.op = "test_connection" => ~cs_ret.connected
        /\ cs_call.op = "sync_products" =>
              ~cs_ret.success

-----------------------------------------------------------------------------
(* C32: the supplier sync's sub-requests *)

RequestsNeeded(n) == (n + BatchSize - 1) \div BatchSize

\* the k-th sub-request carries the SKUs at positions 50(k-1)+1 .. min(50k, n)
ConsecutiveBatches(sent, n) ==
    /\ Len(sent) = RequestsNeeded(n)
    /\ \A k \in 1..Len(sent) :
          /\ sent[k].first = BatchSize * (k - 1) + 1
          /\ sent[k].last = Min(BatchSize * k, n)

\* C32: every SKU list given to the supplier sync is sent as consecutive
\* sub-requests of at most 50 SKUs in input order, every SKU in exactly one of
\* them; a sub-request that fails is recorded in the result and the following
\* sub-requests are still sent.
C32_BatchesCoverAndFailuresAreRecorded ==
    (ClientReturned("sync_products") /\ cs_call.client = "jds" /\ cs_call.configured
        /\ cs_call.given) =>
        /\ ConsecutiveBatches(cs_sent, cs_call.n)
        /\ cs_acc.failed_requests > 0 => (~cs_ret.success \/ cs_ret.errors > 0)

-----------------------------------------------------------------------------
(* C38: the count a sync reports *)

\* C38: the count reported by a supplier or storefront sync is the number of
\* records the call wrote to the local store; a record whose write fails is
\* listed in errors and not counted.
C38_CountIsTheNumberWritten ==
    (ClientReturned("sync_products") /\ cs_ret.success) =>
        /\ cs_ret.count = cs_acc.written
        /\ cs_ret.errors = cs_acc.not_written

-----------------------------------------------------------------------------
(* C33: the stored connectivity result *)

StatusCalled == conn_ret.fn = "get_connection_status"

ResultStoredBefore ==
    /\ conn_ret.jds_before # "None"
    /\ conn_ret.shopify_before # "None"
    /\ conn_ret.last_before # NoSync

AgeAtCall == conn_ret.at - conn_ret.last_before

\* C33: status() probes the two upstreams only when no connectivity result is
\* stored or the stored one is older than 5 minutes; a call within 5 minutes
\* of the last probe returns the stored result and contacts neither upstream.
C33_StatusProbesOnlyWhenStale ==
    StatusCalled =>
        /\ conn_ret.probed # <<>> => (~ResultStoredBefore \/ AgeAtCall > 5)
        /\ (ResultStoredBefore /\ AgeAtCall <= 5) =>
              /\ conn_ret.probed = <<>>
              /\ conn_ret.jds = conn_ret.jds_before
              /\ conn_ret.shopify = conn_ret.shopify_before
              /\ last_connection_test = conn_ret.last_before

\* a status call exactly 5 minutes after the probe that found both upstreams
\* down answers from the stored result
C33_Witness ==
    /\ StatusCalled
    /\ ResultStoredBefore
    /\ AgeAtCall = 5
    /\ conn_ret.probed = <<>>
    /\ conn_ret.jds = "False"

-----------------------------------------------------------------------------
(* C34: normalizing twice *)

Normalized == normOut[1] \in {"clean_sku_for_comparison", "clean_sku_for_external_api"}

\* C34: SKU normalization is idempotent: normalizing the result of a
\* normalization gives that result again, for every SKU.
C34_NormalizeIdempotent ==
    Normalized =>
        /\ clean_sku_for_comparison(normOut[2]) = normOut[2]
        /\ clean_sku_for_external_api(normOut[2]) = normOut[2]
        /\ clean_sku_for_comparison(clean_sku_for_comparison(normIn))
              = clean_sku_for_comparison(normIn)

\* a SKU with two hyphens was normalized to the text after the second
C34_Witness ==
    /\ normOut[1] = "clean_sku_for_comparison"
    /\ normIn # None
    /\ Len(Split(normIn)) = 3
    /\ normOut[2] # <<>>
    /\ normOut[2] # normIn
    /\ ~HasHyphen(normOut[2])

-----------------------------------------------------------------------------
(* C35: an accepted request is served *)

Filed(sku) == sku \in completed_syncs \/ sku \in DOMAIN failed_syncs

\* C35: with fair scheduling and upstream calls that return, every SKU for
\* which request_sync returned true is eventually taken out of pending by the
\* worker and placed in completed or in failed, also when the request was made
\* after stop_worker while the old worker thread was still alive.  A SKU that
\* was still pending when stop_worker was called later is left out.
C35_AcceptedRequestIsServed ==
    \A sku \in BgSkus :
        (sku \in pending_syncs) ~> (Filed(sku) \/ sku \in stopped_on)

-----------------------------------------------------------------------------
(* C36, C37: adding a SKU to the storefront *)

Added == add_ret.answer = "created"

\* C36: adding a SKU is idempotent for every supplier SKU, with or without a
\* hyphen: once create has succeeded for s the local lookup of s finds a
\* price, so a second add is answered 'already exists' and the storefront
\* never holds two products for s.  Stated for adds whose local write did not
\* fail.
C36_AddIsIdempotent ==
    /\ (Added /\ add_ret.write = "none") =>
          get_shopify_price_for_sku(add_ret.record_sku, shopify_products) # PyNone
    /\ (Added /\ add_ret.write = "none") => ~add_ret.created_before

\* C37: no product is created or repriced on the storefront with a price that
\* is zero or negative, on any path of add_sku_to_shopify and of
\* add_or_update, a supplier record with case-tier prices but no unit price
\* included.
C37_CreatedPriceIsPositive ==
    /\ \A i \in 1..Len(storefront) : storefront[i].price > 0
    /\ Added => add_ret.price > 0

-----------------------------------------------------------------------------
(* C39: a failed live check and the local row *)

RowRemoved == drift_ret.local_before /\ ~drift_ret.local_after

-----------------------------------------------------------------------------
(* C40: what changes last_sync *)

SkippedNow == sync_ret'.entry = "sync_all_data" /\ ~sync_ret'.force
                 /\ sync_ret'.message = "Sync skipped - recently synced"

\* C40: last_sync changes only in a sync_all call that passed the cooldown
\* gate.  A skipped sync_all calls neither client and leaves last_sync and both
\* tables as they were; the supplier sync and the storefront sync called alone
\* leave last_sync as it was; a sync_all that passed the gate sets last_sync
\* even when both sides failed, so the cooldown follows a failed sync too.
C40_LastSyncFrame ==
    [][ /\ last_sync' # last_sync =>
              /\ sync_ret'.entry \in {"sync_all_data", "sync_all"}
              /\ client_calls' = <<"jds", "shopify">>
              /\ last_sync' = now
              /\ \/ sync_ret'.force
                 \/ last_sync = NoSync
                 \/ now - last_sync >= 5
        /\ SkippedNow =>
              /\ client_calls' = <<>>
              /\ UNCHANGED <<last_sync, jds_products, shopify_products>>
        /\ sync_ret'.entry \in {"sync_jds_data", "sync_shopify_data"} =>
              UNCHANGED last_sync
        /\ (sync_ret'.entry = "sync_all_data" /\ sync_ret' # sync_ret
              /\ sync_ret'.message = "Both JDS and Shopify sync failed") =>
              /\ last_sync' = now
              /\ ~sync_ret'.force => (now - sync_ret'.last_sync_before >= 5
                                        \/ sync_ret'.last_sync_before = NoSync)
      ]_vars

\* a sync_all_data without force follows, inside the cooldown, one in which
\* both sides failed, and is skipped
C40_Witness ==
    /\ sync_ret.entry = "sync_all_data"
    /\ ~sync_ret.force
    /\ sync_ret.message = "Sync skipped - recently synced"
    /\ sync_ret.last_sync_before # NoSync
    /\ sync_ret.at - sync_ret.last_sync_before < 5
    /\ last_sync = sync_ret.last_sync_before
    /\ client_calls = <<>>
    /\ jds_products = <<>>
    /\ shopify_products = <<>>

====
